---- MODULE Spec2Model ----
(***************************************************************************)
(* A model of package-conflicts-resolver: the version resolver             *)
(* (src/src/version-resolver.ts), the field merge engine and the document  *)
(* reassembler (src/src/package-resolver.ts) and the conflict region       *)
(* scanner (src/src/conflict-parser.ts).                                   *)
(*                                                                         *)
(* JavaScript strings are TLA+ strings; TLC evaluates Len, SubSeq, Tail    *)
(* and \o on them, so a character is a string of length one.               *)
(***************************************************************************)
EXTENDS Integers, Sequences, FiniteSets, TLC

VARIABLES
    ourVersion,     \* first argument of the resolver call under study
    theirVersion,   \* second argument
    strategy,       \* this.options.strategy / the strategy argument
    called,         \* which entry point has run ("none" before)
    resolution,     \* the {resolved, reason} value it returned
    fieldName,      \* the field a conflict region is about
    ourData,        \* what parsePartialJson made of the ours side
    theirData,      \* and of the theirs side
    resolvedConflict, \* the ResolvedConflict of the merge
    packageJson,    \* the parsed document handed to stabilizeFieldOrder
    ordered,        \* the document it returned
    content,        \* the text of the file when the run starts
    file,           \* the text of the file on disk
    result,         \* the ResolutionResult of resolveConflicts
    exitCode,       \* the code the process exited with (-1: it has not)
    lockRegenerated, \* whether npm was asked to rebuild the lock file
    scanText,       \* the text handed to parseConflicts / removeConflictMarkers
    replacements,   \* the resolvedSections handed to removeConflictMarkers
    regions,        \* the ConflictMarker list parseConflicts returned
    spliced,        \* the text removeConflictMarkers returned
    fragment,       \* the text handed to parsePartialJson
    partial         \* the value parsePartialJson returned

versionVars == <<ourVersion, theirVersion, resolution>>

mergeVars == <<fieldName, ourData, theirData, resolvedConflict>>

orderVars == <<packageJson, ordered>>

runVars == <<content, file, result, exitCode, lockRegenerated>>

parserVars == <<scanText, replacements, regions, spliced, fragment, partial>>

vars == <<strategy, called, versionVars, mergeVars, orderVars, runVars, parserVars>>

(***************************************************************************)
(* Characters and strings                                                  *)
(***************************************************************************)

CharAt(s, i) == SubSeq(s, i, i)

Digits == {"0", "1", "2", "3", "4", "5", "6", "7", "8", "9"}

LowerLetters == "abcdefghijklmnopqrstuvwxyz"

UpperLetters == "ABCDEFGHIJKLMNOPQRSTUVWXYZ"

\* Position of character c in the string order, 0 when absent.
IndexIn(c, order) ==
    IF \E i \in 1..Len(order) : CharAt(order, i) = c
    THEN CHOOSE i \in 1..Len(order) : CharAt(order, i) = c
    ELSE 0

IsDigit(c) == c \in Digits

IsLower(c) == IndexIn(c, LowerLetters) > 0

IsUpper(c) == IndexIn(c, UpperLetters) > 0

IsAlpha(c) == IsLower(c) \/ IsUpper(c)

ToLower(c) == IF IsUpper(c) THEN CharAt(LowerLetters, IndexIn(c, UpperLetters)) ELSE c

\* /\s/ restricted to the white space the model's strings hold.
WhiteSpace == {" ", "\t", "\n", "\r"}

\* Whether every character of s is a digit.
AllDigits(s) == \A i \in 1..Len(s) : IsDigit(CharAt(s, i))

\* Index of the first occurrence of character c in s, 0 when absent.
IndexOf(s, c) ==
    IF \E i \in 1..Len(s) : CharAt(s, i) = c
    THEN CHOOSE i \in 1..Len(s) :
            CharAt(s, i) = c /\ \A j \in 1..(i - 1) : CharAt(s, j) # c
    ELSE 0

\* s without its longest prefix of characters of the set cs.
RECURSIVE DropLeading(_, _)
DropLeading(s, cs) ==
    IF Len(s) > 0 /\ CharAt(s, 1) \in cs THEN DropLeading(Tail(s), cs) ELSE s

\* s without its longest suffix of characters of the set cs.
RECURSIVE DropTrailing(_, _)
DropTrailing(s, cs) ==
    IF Len(s) > 0 /\ CharAt(s, Len(s)) \in cs
    THEN DropTrailing(SubSeq(s, 1, Len(s) - 1), cs)
    ELSE s

\* String.prototype.trim
Trim(s) == DropTrailing(DropLeading(s, WhiteSpace), WhiteSpace)

\* String.prototype.split on a one-character separator: a tuple of strings.
RECURSIVE Split(_, _)
Split(s, sep) ==
    IF IndexOf(s, sep) = 0 THEN <<s>>
    ELSE <<SubSeq(s, 1, IndexOf(s, sep) - 1)>>
            \o Split(SubSeq(s, IndexOf(s, sep) + 1, Len(s)), sep)

StartsWith(s, prefix) ==
    Len(s) >= Len(prefix) /\ SubSeq(s, 1, Len(prefix)) = prefix

\* String.prototype.includes
Includes(s, part) ==
    \E i \in 1..(Len(s) - Len(part) + 1) : SubSeq(s, i, i + Len(part) - 1) = part

DigitValue(c) == IndexIn(c, "0123456789") - 1

\* The number a string of decimal digits denotes.
RECURSIVE ToNat(_)
ToNat(s) ==
    IF Len(s) = 0 THEN 0
    ELSE 10 * ToNat(SubSeq(s, 1, Len(s) - 1)) + DigitValue(CharAt(s, Len(s)))

\* Length of the longest prefix of s made of digits.
RECURSIVE DigitRun(_)
DigitRun(s) ==
    IF Len(s) > 0 /\ IsDigit(CharAt(s, 1)) THEN 1 + DigitRun(Tail(s)) ELSE 0

(***************************************************************************)
(* String orders.  The relational operators of JavaScript compare UTF-16   *)
(* code units; String.prototype.localeCompare compares by the collation    *)
(* of the default locale (ICU root order for these characters: white       *)
(* space, punctuation, symbols, digits, letters; letters differing only    *)
(* in case are told apart last, lower case first).                         *)
(***************************************************************************)

AsciiOrder ==
    " !#$%&'()*+,-./0123456789:;<=>?@ABCDEFGHIJKLMNOPQRSTUVWXYZ[]^_abcdefghijklmnopqrstuvwxyz{|}~"

CollationOrder ==
    " _-,;:!?.'()[]{}@*/&#%^+<=>|~$0123456789abcdefghijklmnopqrstuvwxyz"

\* -1, 0 or 1: a against b, character by character, a character's weight
\* being its place in order; a proper prefix comes first.
RECURSIVE CompareBy(_, _, _)
CompareBy(a, b, order) ==
    IF Len(a) = 0 /\ Len(b) = 0 THEN 0
    ELSE IF Len(a) = 0 THEN -1
    ELSE IF Len(b) = 0 THEN 1
    ELSE IF IndexIn(CharAt(a, 1), order) < IndexIn(CharAt(b, 1), order) THEN -1
    ELSE IF IndexIn(CharAt(a, 1), order) > IndexIn(CharAt(b, 1), order) THEN 1
    ELSE CompareBy(Tail(a), Tail(b), order)

\* a < b, a === b, a > b on strings.
CompareCodeUnits(a, b) == CompareBy(a, b, AsciiOrder)

\* s with its upper case letters in lower case.
RECURSIVE LowerCase(_)
LowerCase(s) ==
    IF Len(s) = 0 THEN "" ELSE ToLower(CharAt(s, 1)) \o LowerCase(Tail(s))

\* Strings equal but for case: the first place where they differ decides,
\* the lower case letter first.
RECURSIVE CompareCase(_, _)
CompareCase(a, b) ==
    IF Len(a) = 0 \/ Len(b) = 0 THEN 0
    ELSE IF CharAt(a, 1) = CharAt(b, 1) THEN CompareCase(Tail(a), Tail(b))
    ELSE IF IsUpper(CharAt(b, 1)) THEN -1 ELSE 1

\* a.localeCompare(b)
localeCompare(a, b) ==
    IF CompareBy(LowerCase(a), LowerCase(b), CollationOrder) # 0
    THEN CompareBy(LowerCase(a), LowerCase(b), CollationOrder)
    ELSE CompareCase(a, b)

\* The decimal numeral of n.
RECURSIVE Dec(_)
Dec(n) ==
    IF n < 10 THEN CharAt("0123456789", n + 1)
    ELSE Dec(n \div 10) \o CharAt("0123456789", (n % 10) + 1)

(***************************************************************************)
(* JavaScript values, as JSON.parse and the resolver build them.  An       *)
(* object is the sequence of its own properties in the order Object.keys   *)
(* lists them: array-index keys in ascending order, then the other keys    *)
(* in the order of their creation.                                         *)
(***************************************************************************)

Str(s) == [type |-> "string", str |-> s, entries |-> <<>>]

Null == [type |-> "null", str |-> "", entries |-> <<>>]

Undefined == [type |-> "undefined", str |-> "", entries |-> <<>>]

\* A number, by its decimal text.
Num(text) == [type |-> "number", str |-> text, entries |-> <<>>]

\* A method that every object inherits from Object.prototype.
Inherited(k) ==
    [type |-> "function",
     str |-> "function " \o (IF k = "constructor" THEN "Object" ELSE k)
                \o "() { [native code] }",
     entries |-> <<>>]

\* The object whose own properties are the <<key, value>> pairs of props.
ObjectOf(props) == [type |-> "object", str |-> "", entries |-> props]

EmptyObject == ObjectOf(<<>>)

IsString(v) == v.type = "string"

\* typeof v
TypeOf(v) == IF v.type \in {"null", "array"} THEN "object" ELSE v.type

RECURSIVE JsString(_)

\* Array.prototype.join(","), from the i-th item on
RECURSIVE JoinItems(_, _)
JoinItems(entries, i) ==
    IF i > Len(entries) THEN ""
    ELSE (IF entries[i][2].type \in {"null", "undefined"} THEN ""
          ELSE JsString(entries[i][2]))
            \o (IF i = Len(entries) THEN "" ELSE "," \o JoinItems(entries, i + 1))

\* String(v)
JsString(v) ==
    CASE v.type \in {"string", "number", "function", "boolean"} -> v.str
      [] v.type = "null" -> "null"
      [] v.type = "undefined" -> "undefined"
      [] v.type = "array" -> JoinItems(v.entries, 1)
      [] OTHER -> "[object Object]"

\* ToBoolean(v)
Truthy(v) ==
    CASE v.type = "string" -> v.str # ""
      [] v.type = "number" -> v.str \notin {"0", "-0"}
      [] v.type = "boolean" -> v.str = "true"
      [] v.type \in {"null", "undefined"} -> FALSE
      [] OTHER -> TRUE

\* a === b; two objects here never are the same object.
StrictEqual(a, b) ==
    a.type = b.type /\ a.type \notin {"object", "function"} /\ a.str = b.str

\* A canonical array index: a decimal numeral below 2^32 - 1.
IsArrayIndex(k) ==
    /\ Len(k) > 0 /\ AllDigits(k)
    /\ Len(k) = 1 \/ CharAt(k, 1) # "0"
    /\ Len(k) < 10 \/ (Len(k) = 10 /\ CompareCodeUnits(k, "4294967295") < 0)

\* index-key order: by length, then by digits
IndexBefore(a, b) ==
    Len(a) < Len(b) \/ (Len(a) = Len(b) /\ CompareCodeUnits(a, b) < 0)

\* An array, as the object of its indices.
ArrayOf(items) ==
    [type |-> "array", str |-> "",
     entries |-> [i \in 1..Len(items) |-> <<Dec(i - 1), items[i]>>]]

\* true and false, by their text.
Bool(text) == [type |-> "boolean", str |-> text, entries |-> <<>>]

Keys(o) == [i \in 1..Len(o.entries) |-> o.entries[i][1]]

HasOwn(o, k) == \E i \in 1..Len(o.entries) : o.entries[i][1] = k

KeyIndex(o, k) == CHOOSE i \in 1..Len(o.entries) : o.entries[i][1] = k

ObjectPrototypeKeys ==
    {"constructor", "toString", "valueOf", "hasOwnProperty", "isPrototypeOf",
     "propertyIsEnumerable", "toLocaleString"}

\* k in o
In(o, k) == HasOwn(o, k) \/ k \in ObjectPrototypeKeys

\* o[k], for an object or a string o
Get(o, k) ==
    CASE o.type \in {"object", "array"} /\ HasOwn(o, k) -> o.entries[KeyIndex(o, k)][2]
      [] o.type = "object" /\ ~HasOwn(o, k) /\ k \in ObjectPrototypeKeys -> Inherited(k)
      [] o.type = "string" /\ IsArrayIndex(k) /\ Len(k) < 5 /\ ToNat(k) < Len(o.str) ->
            Str(CharAt(o.str, ToNat(k) + 1))
      [] OTHER -> Undefined

\* Where a new own property k goes among the entries.
InsertPosition(entries, k) ==
    IF IsArrayIndex(k)
    THEN 1 + Cardinality({i \in 1..Len(entries) :
                IsArrayIndex(entries[i][1]) /\ IndexBefore(entries[i][1], k)})
    ELSE Len(entries) + 1

InsertAt(entries, pos, e) ==
    SubSeq(entries, 1, pos - 1) \o <<e>> \o SubSeq(entries, pos, Len(entries))

\* o[k] = v
ObjSet(o, k, v) ==
    IF HasOwn(o, k)
    THEN ObjectOf([o.entries EXCEPT ![KeyIndex(o, k)] = <<k, v>>])
    ELSE ObjectOf(InsertAt(o.entries, InsertPosition(o.entries, k), <<k, v>>))

\* The indices "0", "1", ... below n.
RECURSIVE IndexKeys(_)
IndexKeys(n) == IF n = 0 THEN <<>> ELSE Append(IndexKeys(n - 1), Dec(n - 1))

\* Object.keys(v), v neither null nor undefined
OwnKeys(v) ==
    CASE v.type \in {"object", "array"} -> Keys(v)
      [] v.type = "string" -> IndexKeys(Len(v.str))
      [] OTHER -> <<>>

(***************************************************************************)
(* JSON.stringify, with the indentation of two spaces and without.         *)
(***************************************************************************)

RECURSIVE JsonEscape(_)
JsonEscape(s) ==
    IF s = "" THEN ""
    ELSE (CASE CharAt(s, 1) = "\"" -> "\\\""
            [] CharAt(s, 1) = "\\" -> "\\\\"
            [] CharAt(s, 1) = "\n" -> "\\n"
            [] OTHER -> CharAt(s, 1)) \o JsonEscape(Tail(s))

JsonQuote(s) == "\"" \o JsonEscape(s) \o "\""

\* A property JSON.stringify writes: not a function, not undefined.
IsSerialisable(e) == e[2].type \notin {"function", "undefined"}

RECURSIVE JsonPretty(_, _)
RECURSIVE JsonPrettyMembers(_, _, _)
JsonPrettyMembers(entries, i, ind) ==
    ind \o JsonQuote(entries[i][1]) \o ": " \o JsonPretty(entries[i][2], ind)
        \o (IF i = Len(entries) THEN ""
            ELSE ",\n" \o JsonPrettyMembers(entries, i + 1, ind))

RECURSIVE JsonPrettyItems(_, _, _)
JsonPrettyItems(entries, i, ind) ==
    ind \o (IF IsSerialisable(entries[i]) THEN JsonPretty(entries[i][2], ind) ELSE "null")
        \o (IF i = Len(entries) THEN ""
            ELSE ",\n" \o JsonPrettyItems(entries, i + 1, ind))

\* JSON.stringify(v, null, 2), v standing at the indentation ind
JsonPretty(v, ind) ==
    CASE v.type = "string" -> JsonQuote(v.str)
      [] v.type \in {"number", "boolean"} -> v.str
      [] v.type = "object" ->
            IF SelectSeq(v.entries, IsSerialisable) = <<>> THEN "{}"
            ELSE "{\n" \o JsonPrettyMembers(SelectSeq(v.entries, IsSerialisable),
                                            1, ind \o "  ")
                    \o "\n" \o ind \o "}"
      [] v.type = "array" ->
            IF v.entries = <<>> THEN "[]"
            ELSE "[\n" \o JsonPrettyItems(v.entries, 1, ind \o "  ")
                    \o "\n" \o ind \o "]"
      [] OTHER -> "null"

RECURSIVE JsonCompact(_)
RECURSIVE JsonCompactMembers(_, _)
JsonCompactMembers(entries, i) ==
    JsonQuote(entries[i][1]) \o ":" \o JsonCompact(entries[i][2])
        \o (IF i = Len(entries) THEN ""
            ELSE "," \o JsonCompactMembers(entries, i + 1))

RECURSIVE JsonCompactItems(_, _)
JsonCompactItems(entries, i) ==
    (IF IsSerialisable(entries[i]) THEN JsonCompact(entries[i][2]) ELSE "null")
        \o (IF i = Len(entries) THEN ""
            ELSE "," \o JsonCompactItems(entries, i + 1))

\* JSON.stringify(v)
JsonCompact(v) ==
    CASE v.type = "string" -> JsonQuote(v.str)
      [] v.type \in {"number", "boolean"} -> v.str
      [] v.type = "object" ->
            IF SelectSeq(v.entries, IsSerialisable) = <<>> THEN "{}"
            ELSE "{" \o JsonCompactMembers(SelectSeq(v.entries, IsSerialisable), 1)
                    \o "}"
      [] v.type = "array" ->
            IF v.entries = <<>> THEN "[]"
            ELSE "[" \o JsonCompactItems(v.entries, 1) \o "]"
      [] OTHER -> "null"

(***************************************************************************)
(* JSON.parse: a parse is the record of whether the text was accepted, of  *)
(* the value read and of the position after it.                            *)
(***************************************************************************)

\* The character of s at position i, the empty string beyond its end.
At(s, i) == IF i >= 1 /\ i <= Len(s) THEN SubSeq(s, i, i) ELSE ""

Parsed(v, i) == [ok |-> TRUE, value |-> v, next |-> i]

NotParsed == [ok |-> FALSE, value |-> Undefined, next |-> 0]

RECURSIVE SkipWs(_, _)
SkipWs(s, i) == IF At(s, i) \in WhiteSpace THEN SkipWs(s, i + 1) ELSE i

\* The character an escape sequence stands for ("" when there is none).
Unescaped(c) ==
    CASE c = "n" -> "\n"
      [] c = "t" -> "\t"
      [] c = "r" -> "\r"
      [] c \in {"\"", "\\", "/"} -> c
      [] OTHER -> ""

\* The rest of a string literal, from position i, acc being what was read.
RECURSIVE ScanString(_, _, _)
ScanString(s, i, acc) ==
    CASE At(s, i) = "" \/ At(s, i) \in {"\n", "\t", "\r"} -> NotParsed
      [] At(s, i) = "\"" -> Parsed(Str(acc), i + 1)
      [] At(s, i) = "\\" ->
            IF Unescaped(At(s, i + 1)) = "" THEN NotParsed
            ELSE ScanString(s, i + 2, acc \o Unescaped(At(s, i + 1)))
      [] OTHER -> ScanString(s, i + 1, acc \o At(s, i))

RECURSIVE SkipDigits(_, _)
SkipDigits(s, i) == IF IsDigit(At(s, i)) THEN SkipDigits(s, i + 1) ELSE i

\* The end of the integer part that starts at i, 0 when there is none.
IntegerEnd(s, i) ==
    IF At(s, i) = "0" THEN i + 1
    ELSE IF IsDigit(At(s, i)) THEN SkipDigits(s, i)
    ELSE 0

\* The end of the fraction, if one starts at i; i otherwise, 0 when broken.
FractionEnd(s, i) ==
    IF i = 0 THEN 0
    ELSE IF At(s, i) # "." THEN i
    ELSE IF IsDigit(At(s, i + 1)) THEN SkipDigits(s, i + 1)
    ELSE 0

NumberEnd(s, i) ==
    FractionEnd(s, IntegerEnd(s, IF At(s, i) = "-" THEN i + 1 ELSE i))

ParseNumber(s, i) ==
    IF NumberEnd(s, i) = 0 \/ At(s, NumberEnd(s, i)) \in {"e", "E"} THEN NotParsed
    ELSE Parsed(Num(SubSeq(s, i, NumberEnd(s, i) - 1)), NumberEnd(s, i))

ParseLiteral(s, i, text, v) ==
    IF i + Len(text) - 1 <= Len(s) /\ SubSeq(s, i, i + Len(text) - 1) = text
    THEN Parsed(v, i + Len(text))
    ELSE NotParsed

RECURSIVE ParseValue(_, _)
RECURSIVE ParseMember(_, _, _)
RECURSIVE ParseItem(_, _, _)

AfterMember(s, obj, i) ==
    CASE At(s, i) = "," -> ParseMember(s, SkipWs(s, i + 1), obj)
      [] At(s, i) = "}" -> Parsed(obj, i + 1)
      [] OTHER -> NotParsed

AfterMemberValue(s, obj, key, v) ==
    IF ~v.ok THEN NotParsed
    ELSE AfterMember(s, ObjSet(obj, key, v.value), SkipWs(s, v.next))

AfterColon(s, obj, key, i) ==
    IF At(s, i) # ":" THEN NotParsed
    ELSE AfterMemberValue(s, obj, key, ParseValue(s, SkipWs(s, i + 1)))

AfterKey(s, obj, k) ==
    IF ~k.ok THEN NotParsed
    ELSE AfterColon(s, obj, k.value.str, SkipWs(s, k.next))

ParseMember(s, i, obj) ==
    IF At(s, i) # "\"" THEN NotParsed
    ELSE AfterKey(s, obj, ScanString(s, i + 1, ""))

AfterItem(s, items, i) ==
    CASE At(s, i) = "," -> ParseItem(s, SkipWs(s, i + 1), items)
      [] At(s, i) = "]" -> Parsed(ArrayOf(items), i + 1)
      [] OTHER -> NotParsed

AfterItemValue(s, items, v) ==
    IF ~v.ok THEN NotParsed
    ELSE AfterItem(s, Append(items, v.value), SkipWs(s, v.next))

ParseItem(s, i, items) == AfterItemValue(s, items, ParseValue(s, i))

\* The value that starts at position i of s.
ParseValue(s, i) ==
    CASE At(s, i) = "{" ->
            IF At(s, SkipWs(s, i + 1)) = "}"
            THEN Parsed(EmptyObject, SkipWs(s, i + 1) + 1)
            ELSE ParseMember(s, SkipWs(s, i + 1), EmptyObject)
      [] At(s, i) = "[" ->
            IF At(s, SkipWs(s, i + 1)) = "]"
            THEN Parsed(ArrayOf(<<>>), SkipWs(s, i + 1) + 1)
            ELSE ParseItem(s, SkipWs(s, i + 1), <<>>)
      [] At(s, i) = "\"" -> ScanString(s, i + 1, "")
      [] At(s, i) = "-" \/ IsDigit(At(s, i)) -> ParseNumber(s, i)
      [] At(s, i) = "t" -> ParseLiteral(s, i, "true", Bool("true"))
      [] At(s, i) = "f" -> ParseLiteral(s, i, "false", Bool("false"))
      [] At(s, i) = "n" -> ParseLiteral(s, i, "null", Null)
      [] OTHER -> NotParsed

\* The whole text must be one value.
WholeText(s, v) ==
    IF v.ok /\ SkipWs(s, v.next) > Len(s) THEN v ELSE NotParsed

\* JSON.parse(text): not ok where JSON.parse throws a SyntaxError
JsonParse(text) == WholeText(text, ParseValue(text, SkipWs(text, 1)))

OrderIdle ==
    /\ packageJson = Null
    /\ ordered = Null

\* The result resolveConflicts starts from.
NoResult ==
    [resolved |-> FALSE, conflicts |-> <<>>, errors |-> <<>>, packageJson |-> Undefined]

RunIdle ==
    /\ content = ""
    /\ file = ""
    /\ result = NoResult
    /\ exitCode = -1
    /\ lockRegenerated = FALSE

ParserIdle ==
    /\ scanText = ""
    /\ replacements = <<>>
    /\ regions = <<>>
    /\ spliced = ""
    /\ fragment = ""
    /\ partial = Undefined

\* No merge has been asked for.
NoConflict ==
    [field |-> "", ourValue |-> "", theirValue |-> "", resolvedValue |-> "",
     strategy |-> "", originalOurs |-> "", originalTheirs |-> "", raised |-> FALSE]

MergeIdle ==
    /\ fieldName = ""
    /\ ourData = Null
    /\ theirData = Null
    /\ resolvedConflict = NoConflict

(***************************************************************************)
(* The semver package, as far as the resolver uses it: valid, prerelease,  *)
(* compare and coerce, in their default (strict) mode.                     *)
(***************************************************************************)

\* A parsed SemVer; ok is FALSE where the package returns null.
NoSemVer == [ok |-> FALSE, major |-> 0, minor |-> 0, patch |-> 0, prerelease |-> <<>>]

\* [0-9A-Za-z-]
IsIdentifierChar(c) == IsDigit(c) \/ IsAlpha(c) \/ c = "-"

\* NUMERICIDENTIFIER: 0|[1-9]\d*
IsNumericIdentifier(s) ==
    Len(s) > 0 /\ AllDigits(s) /\ (Len(s) = 1 \/ CharAt(s, 1) # "0")

\* BUILDIDENTIFIER: [0-9A-Za-z-]+
IsBuildIdentifier(s) ==
    Len(s) > 0 /\ \A i \in 1..Len(s) : IsIdentifierChar(CharAt(s, i))

\* PRERELEASEIDENTIFIER: a numeric identifier, or \d*[a-zA-Z-][a-zA-Z0-9-]*
IsPrereleaseIdentifier(s) ==
    IsBuildIdentifier(s) /\ (AllDigits(s) => IsNumericIdentifier(s))

\* The part of s before the first character c, all of s when it has none.
Before(s, c) ==
    IF IndexOf(s, c) = 0 THEN s ELSE SubSeq(s, 1, IndexOf(s, c) - 1)

\* The dot-separated identifiers after the first character c of s, none when
\* s has no c.
IdentifiersAfter(s, c) ==
    IF IndexOf(s, c) = 0 THEN <<>>
    ELSE Split(SubSeq(s, IndexOf(s, c) + 1, Len(s)), ".")

\* The SemVer of M.m.p, a prerelease and a build given as identifiers.
SemVerOf(nums, preIds, buildIds) ==
    IF /\ Len(nums) = 3
       /\ \A i \in 1..Len(nums) : IsNumericIdentifier(nums[i])
       /\ \A i \in 1..Len(preIds) : IsPrereleaseIdentifier(preIds[i])
       /\ \A i \in 1..Len(buildIds) : IsBuildIdentifier(buildIds[i])
    THEN [ok |-> TRUE, major |-> ToNat(nums[1]), minor |-> ToNat(nums[2]),
          patch |-> ToNat(nums[3]), prerelease |-> preIds]
    ELSE NoSemVer

\* M.m.p(-prerelease)?(+build)? : the build follows the first "+", the
\* prerelease the first "-" before it.
ParseFullPlain(u) ==
    SemVerOf(Split(Before(Before(u, "+"), "-"), "."),
             IdentifiersAfter(Before(u, "+"), "-"),
             IdentifiersAfter(u, "+"))

\* The optional leading v of FULLPLAIN.
StripV(t) == IF StartsWith(t, "v") THEN Tail(t) ELSE t

\* new SemVer(version): version.trim() against ^v?M.m.p(-prerelease)?(+build)?$
semverParse(version) == ParseFullPlain(StripV(Trim(version)))

\* semver.valid(version) is not null
semverValid(version) == semverParse(version).ok

\* semver.prerelease(version) !== null
semverPrerelease(version) == Len(semverParse(version).prerelease) > 0

CompareInt(a, b) == IF a < b THEN -1 ELSE IF a > b THEN 1 ELSE 0

\* compareIdentifiers: numeric identifiers by value and below the others,
\* the others by code units.
compareIdentifiers(a, b) ==
    IF AllDigits(a) /\ AllDigits(b) THEN CompareInt(ToNat(a), ToNat(b))
    ELSE IF a = b THEN 0
    ELSE IF AllDigits(a) THEN -1
    ELSE IF AllDigits(b) THEN 1
    ELSE IF CompareCodeUnits(a, b) < 0 THEN -1 ELSE 1

\* SemVer.comparePre from identifier i on, both sides having a prerelease.
RECURSIVE comparePreFrom(_, _, _)
comparePreFrom(a, b, i) ==
    IF i > Len(a) /\ i > Len(b) THEN 0
    ELSE IF i > Len(b) THEN 1
    ELSE IF i > Len(a) THEN -1
    ELSE IF a[i] = b[i] THEN comparePreFrom(a, b, i + 1)
    ELSE compareIdentifiers(a[i], b[i])

\* SemVer.comparePre
comparePre(a, b) ==
    IF Len(a) > 0 /\ Len(b) = 0 THEN -1
    ELSE IF Len(a) = 0 /\ Len(b) > 0 THEN 1
    ELSE IF Len(a) = 0 /\ Len(b) = 0 THEN 0
    ELSE comparePreFrom(a, b, 1)

\* SemVer.compare on two parsed versions: compareMain, then comparePre.
compareSemVer(a, b) ==
    IF a.major # b.major THEN CompareInt(a.major, b.major)
    ELSE IF a.minor # b.minor THEN CompareInt(a.minor, b.minor)
    ELSE IF a.patch # b.patch THEN CompareInt(a.patch, b.patch)
    ELSE comparePre(a.prerelease, b.prerelease)

\* semver.compare(a, b) on two valid version strings
semverCompare(a, b) == compareSemVer(semverParse(a), semverParse(b))

\* Index of the first digit of s, 0 when it has none.
FirstDigit(s) ==
    IF \E i \in 1..Len(s) : IsDigit(CharAt(s, i))
    THEN CHOOSE i \in 1..Len(s) :
            IsDigit(CharAt(s, i)) /\ \A j \in 1..(i - 1) : ~IsDigit(CharAt(s, j))
    ELSE 0

\* (?:\.(\d{1,16}))? matches at the head of s.
HasDotDigits(s) == StartsWith(s, ".") /\ DigitRun(Tail(s)) > 0

\* The digits that group captures, "0" when it does not match.
DotDigits(s) ==
    IF HasDotDigits(s) THEN SubSeq(s, 2, 1 + DigitRun(Tail(s))) ELSE "0"

\* What follows that group's match.
AfterDotDigits(s) ==
    IF HasDotDigits(s) THEN SubSeq(s, DigitRun(Tail(s)) + 2, Len(s)) ELSE s

\* The patch group is tried where the minor group ended, and only matches
\* when the minor group did.
CoercedPatch(rest1) ==
    IF HasDotDigits(rest1) THEN DotDigits(AfterDotDigits(rest1)) ELSE "0"

\* major.minor.patch of the match that starts with the digit run heading r.
CoercedText(r) ==
    SubSeq(r, 1, DigitRun(r)) \o "."
        \o DotDigits(SubSeq(r, DigitRun(r) + 1, Len(r))) \o "."
        \o CoercedPatch(SubSeq(r, DigitRun(r) + 1, Len(r)))

\* semver.coerce(version): the leftmost match of
\* (^|[^\d])(\d{1,16})(?:\.(\d{1,16}))?(?:\.(\d{1,16}))?(?:$|[^\d]),
\* which for runs of fewer than 16 digits is the first run of digits and up
\* to two following ".digits" groups; then parse(major.minor.patch).
semverCoerce(version) ==
    IF FirstDigit(version) = 0 THEN NoSemVer
    ELSE semverParse(CoercedText(SubSeq(version, FirstDigit(version), Len(version))))

(***************************************************************************)
(* VersionResolver (src/src/version-resolver.ts).  A call returns          *)
(* {resolved, reason}; raised is TRUE when it throws instead.              *)
(***************************************************************************)

Returned(value, why) == [resolved |-> value, reason |-> why, raised |-> FALSE]

\* A TypeError leaves the call: a method of String applied to a non-string.
Thrown == [resolved |-> Null, reason |-> "TypeError", raised |-> TRUE]

\* The character class [\^~>=<\s] of cleanVersion's pattern.
RangeOperatorChars == {"^", "~", ">", "=", "<"} \cup WhiteSpace

\* The character class [\^~>=<] of the specificity and restrictiveness tests.
RangePrefixChars == {"^", "~", ">", "=", "<"}

\* cleanVersion with a pattern that knows only the caret and the tilde.
cleanVersionCaretTilde(version) ==
    IF ~IsString(version)
    THEN JsString(IF Truthy(version) THEN version ELSE Str(""))
    ELSE Trim(DropLeading(version.str, {"^", "~"} \cup WhiteSpace))

cleanVersion(version) ==
    IF ~IsString(version)
    THEN JsString(IF Truthy(version) THEN version ELSE Str(""))
    ELSE Trim(DropLeading(version.str, RangeOperatorChars))

\* /^[\^~>=<]/.test(version)
HasRangePrefix(s) == Len(s) > 0 /\ CharAt(s, 1) \in RangePrefixChars

getVersionSpecificity(version) ==
    (IF ~HasRangePrefix(version.str) THEN 3 ELSE 0)
    + (IF StartsWith(version.str, "~") THEN 2
       ELSE IF StartsWith(version.str, "^") THEN 1 ELSE 0)
    + Len(Split(cleanVersion(version), "."))

getVersionRestrictiveness(version) ==
    IF ~HasRangePrefix(version.str) THEN 5
    ELSE IF StartsWith(version.str, "~") THEN 3
    ELSE IF StartsWith(version.str, "^") THEN 2
    ELSE IF Includes(version.str, ">=") \/ Includes(version.str, "<=") THEN 1
    ELSE 0

\* preferMoreSpecific with theirs kept when the scores are equal.
preferMoreSpecificKeepingTheirs(our, their) ==
    IF getVersionSpecificity(our) > getVersionSpecificity(their)
    THEN Returned(our, "our version is more specific")
    ELSE IF getVersionSpecificity(their) > getVersionSpecificity(our)
    THEN Returned(their, "their version is more specific")
    ELSE Returned(their, "versions have equal specificity, keeping ours")

preferMoreSpecific(our, their) ==
    IF getVersionSpecificity(our) > getVersionSpecificity(their)
    THEN Returned(our, "our version is more specific")
    ELSE IF getVersionSpecificity(their) > getVersionSpecificity(our)
    THEN Returned(their, "their version is more specific")
    ELSE Returned(our, "versions have equal specificity, keeping ours")

preferMoreRestrictive(our, their) ==
    IF getVersionRestrictiveness(our) > getVersionRestrictiveness(their)
    THEN Returned(our, "our version is more restrictive")
    ELSE IF getVersionRestrictiveness(their) > getVersionRestrictiveness(our)
    THEN Returned(their, "their version is more restrictive")
    ELSE Returned(our, "versions have equal restrictiveness, keeping ours")

\* preferByComparison with the two tests of the comparison exchanged.
preferByComparisonSwapped(our, their, preference, comparison) ==
    IF preference = "highest"
    THEN IF comparison < 0
         THEN Returned(our, "our version is lexicographically higher")
         ELSE Returned(their, "their version is lexicographically higher")
    ELSE IF comparison > 0
         THEN Returned(our, "our version is lexicographically lower")
         ELSE Returned(their, "their version is lexicographically lower")

\* ourVersion.localeCompare(theirVersion) throws unless ourVersion is a
\* string; the argument is converted to a string.
\* Lines 237-249, comparison being the value of line 235.
preferByComparison(our, their, preference, comparison) ==
    IF preference = "highest"
    THEN IF comparison > 0
         THEN Returned(our, "our version is lexicographically higher")
         ELSE Returned(their, "their version is lexicographically higher")
    ELSE IF comparison < 0
         THEN Returned(our, "our version is lexicographically lower")
         ELSE Returned(their, "their version is lexicographically lower")

lexicographicComparison(our, their, preference) ==
    IF ~IsString(our) THEN Thrown
    ELSE preferByComparison(our, their, preference,
            localeCompare(our.str, JsString(their)))

\* highestOfValid without the preference for a stable version.
highestOfValidNumericOnly(our, their, ourClean, theirClean) ==
    IF semverCompare(ourClean, theirClean) > 0
    THEN Returned(our, "our version " \o ourClean \o " is higher than " \o theirClean)
    ELSE IF semverCompare(ourClean, theirClean) < 0
    THEN Returned(their, "their version " \o theirClean \o " is higher than " \o ourClean)
    ELSE Returned(our, "versions are identical")

\* highestOfValid comparing the cleaned strings as text, not as versions.
highestOfValidByText(our, their, ourClean, theirClean) ==
    IF semverPrerelease(ourClean) /\ ~semverPrerelease(theirClean)
    THEN Returned(their, "their version " \o theirClean
               \o " is stable, preferring over pre-release " \o ourClean)
    ELSE IF ~semverPrerelease(ourClean) /\ semverPrerelease(theirClean)
    THEN Returned(our, "our version " \o ourClean
               \o " is stable, preferring over pre-release " \o theirClean)
    ELSE IF CompareCodeUnits(ourClean, theirClean) > 0
    THEN Returned(our, "our version " \o ourClean \o " is higher than " \o theirClean)
    ELSE Returned(their, "their version " \o theirClean \o " is higher than " \o ourClean)

\* Lines 46-74: both cleaned strings are valid; a stable version is
\* preferred to a prerelease, then semver.compare decides.
highestOfValid(our, their, ourClean, theirClean) ==
    IF semverPrerelease(ourClean) /\ ~semverPrerelease(theirClean)
    THEN Returned(their, "their version " \o theirClean
               \o " is stable, preferring over pre-release " \o ourClean)
    ELSE IF ~semverPrerelease(ourClean) /\ semverPrerelease(theirClean)
    THEN Returned(our, "our version " \o ourClean
               \o " is stable, preferring over pre-release " \o theirClean)
    ELSE IF semverCompare(ourClean, theirClean) > 0
    THEN Returned(our, "our version " \o ourClean \o " is higher than " \o theirClean)
    ELSE IF semverCompare(ourClean, theirClean) < 0
    THEN Returned(their, "their version " \o theirClean \o " is higher than " \o ourClean)
    ELSE Returned(our, "versions are identical")

\* Lines 80-90: both cleaned strings coerce; comparison is
\* semver.compare(ourSemver, theirSemver).  The specificity tie-break calls
\* String methods and so throws, inside the try block, on a non-string.
highestOfCoerced(our, their, ourClean, theirClean, comparison) ==
    IF comparison > 0
    THEN Returned(our, "our version " \o ourClean \o " is higher than " \o theirClean)
    ELSE IF comparison < 0
    THEN Returned(their, "their version " \o theirClean \o " is higher than " \o ourClean)
    ELSE IF IsString(our) /\ IsString(their)
    THEN preferMoreSpecific(our, their)
    ELSE lexicographicComparison(our, their, "highest")

\* resolveHighest after its first two lines.
highestOfCleaned(our, their, ourClean, theirClean) ==
    IF ourClean = theirClean THEN Returned(our, "versions are identical")
    ELSE IF semverValid(ourClean) /\ semverValid(theirClean)
    THEN highestOfValid(our, their, ourClean, theirClean)
    ELSE IF semverCoerce(ourClean).ok /\ semverCoerce(theirClean).ok
    THEN highestOfCoerced(our, their, ourClean, theirClean,
            compareSemVer(semverCoerce(ourClean), semverCoerce(theirClean)))
    ELSE lexicographicComparison(our, their, "highest")

resolveHighest(our, their) ==
    highestOfCleaned(our, their, cleanVersion(our), cleanVersion(their))

\* Lines 114-123: both cleaned strings are valid; semver.compare decides.
lowestOfValid(our, their, ourClean, theirClean) ==
    IF semverCompare(ourClean, theirClean) < 0
    THEN Returned(our, "our version " \o ourClean \o " is lower than " \o theirClean)
    ELSE IF semverCompare(ourClean, theirClean) > 0
    THEN Returned(their, "their version " \o theirClean \o " is lower than " \o ourClean)
    ELSE Returned(our, "versions are identical")

\* Lines 129-139.
lowestOfCoerced(our, their, ourClean, theirClean, comparison) ==
    IF comparison < 0
    THEN Returned(our, "our version " \o ourClean \o " is lower than " \o theirClean)
    ELSE IF comparison > 0
    THEN Returned(their, "their version " \o theirClean \o " is lower than " \o ourClean)
    ELSE IF IsString(our) /\ IsString(their)
    THEN preferMoreRestrictive(our, their)
    ELSE lexicographicComparison(our, their, "lowest")

\* resolveLowest after its first two lines.
lowestOfCleaned(our, their, ourClean, theirClean) ==
    IF ourClean = theirClean THEN Returned(our, "versions are identical")
    ELSE IF semverValid(ourClean) /\ semverValid(theirClean)
    THEN lowestOfValid(our, their, ourClean, theirClean)
    ELSE IF semverCoerce(ourClean).ok /\ semverCoerce(theirClean).ok
    THEN lowestOfCoerced(our, their, ourClean, theirClean,
            compareSemVer(semverCoerce(ourClean), semverCoerce(theirClean)))
    ELSE lexicographicComparison(our, their, "lowest")

resolveLowest(our, their) ==
    lowestOfCleaned(our, their, cleanVersion(our), cleanVersion(their))

\* resolveVersion returning the cleaned string under ours and theirs.
resolveVersionCleaned(our, their, strat) ==
    CASE strat = "highest" -> resolveHighest(our, their)
      [] strat = "lowest" -> resolveLowest(our, their)
      [] strat = "ours" ->
            Returned(Str(cleanVersion(our)), "using our version (ours strategy)")
      [] strat = "theirs" ->
            Returned(Str(cleanVersion(their)), "using their version (theirs strategy)")
      [] OTHER -> resolveHighest(our, their)

resolveVersion(our, their, strat) ==
    CASE strat = "highest" -> resolveHighest(our, their)
      [] strat = "lowest" -> resolveLowest(our, their)
      [] strat = "ours" -> Returned(our, "using our version (ours strategy)")
      [] strat = "theirs" -> Returned(their, "using their version (theirs strategy)")
      [] OTHER -> resolveHighest(our, their)

\* Line 270.
preferOurs(strat, comparison) ==
    IF strat = "highest" THEN comparison > 0 ELSE comparison < 0

resolveNonVersion(ourValue, theirValue, strat) ==
    CASE strat = "ours" -> Returned(ourValue, "using our value (ours strategy)")
      [] strat = "theirs" -> Returned(theirValue, "using their value (theirs strategy)")
      [] strat \in {"highest", "lowest"} ->
            IF IsString(ourValue) /\ IsString(theirValue)
            THEN IF preferOurs(strat, localeCompare(ourValue.str, theirValue.str))
                 THEN Returned(ourValue, "our value is lexicographically " \o strat)
                 ELSE Returned(theirValue, "their value is lexicographically " \o strat)
            ELSE Returned(ourValue, "non-version conflict, keeping our value")
      [] OTHER -> Returned(ourValue, "unknown strategy, keeping our value")

(***************************************************************************)
(* Calls of the resolver on their own: the arguments are drawn from a      *)
(* pool of version strings, tags and non-string values.                    *)
(***************************************************************************)

\* Largest major version of the generated version strings.
MaxMajor == 2

Majors == (1..MaxMajor) \cup {10}

StableVersions == {Dec(M) \o ".0." \o p : M \in Majors, p \in {"0", "4"}}

PrereleaseVersions ==
    {Dec(MaxMajor) \o ".0.0-" \o pre : pre \in {"beta", "beta.2", "beta.10", "3"}}

RangedVersions ==
    {op \o Dec(M) \o ".0.0" : op \in {"^", "~", ">="}, M \in 1..MaxMajor}

PartialVersions ==
    {op \o body : op \in {"", "~", "^", ">=", ">"}, body \in {"1", "1.0"}}

OtherStrings ==
    {"", "latest", "next", "Next", "^latest", "01.0.0", "1.0.x", "v1.0.0",
     "1.0.0+b", "git+https://a.b/c", "node a2.js", "node a10.js"}

VersionStrings ==
    StableVersions \cup PrereleaseVersions \cup RangedVersions
        \cup PartialVersions \cup OtherStrings

ResolverValues == {Str(s) : s \in VersionStrings} \cup {Null, EmptyObject}

\* The four strategies of RESOLUTION_STRATEGIES, and one that is none of them.
Strategies == {"highest", "lowest", "ours", "theirs"}

AnyStrategy == Strategies \cup {"newest"}

NoResolution == [resolved |-> Null, reason |-> "", raised |-> FALSE]

InitVersion ==
    /\ ourVersion \in ResolverValues
    /\ theirVersion \in ResolverValues
    /\ strategy \in AnyStrategy
    /\ called = "none"
    /\ resolution = NoResolution
    /\ MergeIdle
    /\ OrderIdle
    /\ RunIdle
    /\ ParserIdle

CallResolveVersion ==
    /\ called = "none"
    /\ called' = "resolveVersion"
    /\ resolution' = resolveVersion(ourVersion, theirVersion, strategy)
    /\ UNCHANGED <<ourVersion, theirVersion, strategy, mergeVars, orderVars, runVars,
                   parserVars>>

CallResolveNonVersion ==
    /\ called = "none"
    /\ called' = "resolveNonVersion"
    /\ resolution' = resolveNonVersion(ourVersion, theirVersion, strategy)
    /\ UNCHANGED <<ourVersion, theirVersion, strategy, mergeVars, orderVars, runVars,
                   parserVars>>

NextVersion == CallResolveVersion \/ CallResolveNonVersion

SpecVersion == InitVersion /\ [][NextVersion]_vars

(***************************************************************************)
(* Properties of the version resolver, checked under SpecVersion.          *)
(***************************************************************************)

\* The base of a version string: what is left of it after its leading
\* range-operator characters and white space, trimmed.
Base(v) == Trim(DropLeading(v.str, {"^", "~", ">", "=", "<", " "}))

VersionCall == called = "resolveVersion" /\ IsString(ourVersion) /\ IsString(theirVersion)

BothValid == semverValid(Base(ourVersion)) /\ semverValid(Base(theirVersion))

\* The argument other than the one returned.
OtherSide == IF resolution.resolved = ourVersion THEN theirVersion ELSE ourVersion

C3_OnePrerelease ==
    /\ VersionCall /\ strategy = "highest" /\ BothValid
    /\ semverPrerelease(Base(ourVersion)) # semverPrerelease(Base(theirVersion))

\* C3: under highest, when both bases are valid semantic versions and
\* exactly one is a prerelease, the stable side is returned whatever the
\* numbers are, and the reason mentions stability.
C3_StableBeatsPrerelease ==
    C3_OnePrerelease =>
        /\ ~resolution.raised
        /\ resolution.resolved =
              (IF semverPrerelease(Base(ourVersion)) THEN theirVersion ELSE ourVersion)
        /\ Includes(resolution.reason, "stable")

\* A prerelease with the greater major version lost to a stable version.
C3_Witness ==
    /\ C3_OnePrerelease
    /\ semverPrerelease(Base(OtherSide))
    /\ semverParse(Base(OtherSide)).major > semverParse(Base(resolution.resolved)).major
    /\ Includes(resolution.reason, "stable")

C4_ValidAndDifferent ==
    /\ VersionCall /\ strategy \in {"highest", "lowest"} /\ BothValid
    /\ Base(ourVersion) # Base(theirVersion)
    /\ strategy = "highest" =>
          semverPrerelease(Base(ourVersion)) = semverPrerelease(Base(theirVersion))

\* C4: two strings whose bases are valid semantic versions and differ: under
\* highest (both stable or both prerelease) the side with the greater base
\* in semantic-version order is returned, under lowest the side with the
\* smaller base; what is returned is that side's input, operator included.
C4_NumericOrder ==
    C4_ValidAndDifferent =>
        /\ ~resolution.raised
        /\ semverCompare(Base(ourVersion), Base(theirVersion)) > 0 =>
              resolution.resolved =
                 (IF strategy = "highest" THEN ourVersion ELSE theirVersion)
        /\ semverCompare(Base(ourVersion), Base(theirVersion)) < 0 =>
              resolution.resolved =
                 (IF strategy = "highest" THEN theirVersion ELSE ourVersion)

\* A ranged version won although it comes first as text ("^2.0.0" over
\* "10.0.4" under lowest, "^10..." never being in the pool).
C4_Witness ==
    /\ C4_ValidAndDifferent
    /\ strategy = "lowest"
    /\ resolution.resolved = theirVersion
    /\ HasRangePrefix(theirVersion.str)
    /\ semverParse(Base(ourVersion)).major >= 10
    /\ semverCompare(Base(ourVersion), Base(theirVersion)) > 0

\* C5: under ours both entry points return their first argument and under
\* theirs their second, unchanged, whatever the two values are.
C5_OursTheirsUnconditional ==
    (called # "none" /\ strategy \in {"ours", "theirs"}) =>
        /\ ~resolution.raised
        /\ resolution.resolved = (IF strategy = "ours" THEN ourVersion ELSE theirVersion)
        /\ Includes(resolution.reason, strategy \o " strategy")

\* theirs handed back a version with its operator although ours is null.
C5_Witness ==
    /\ called = "resolveVersion" /\ strategy = "theirs"
    /\ ourVersion = Null
    /\ IsString(theirVersion) /\ HasRangePrefix(theirVersion.str)
    /\ resolution.resolved = theirVersion

C6_SameBase ==
    /\ VersionCall /\ strategy \in {"highest", "lowest"}
    /\ Base(ourVersion) = Base(theirVersion)

\* C6: under highest or lowest, two strings with identical bases: one of the
\* two inputs is returned and the reason says the versions are identical.
C6_IdenticalBases ==
    C6_SameBase =>
        /\ ~resolution.raised
        /\ resolution.resolved \in {ourVersion, theirVersion}
        /\ Includes(resolution.reason, "identical")

\* Two different inputs with one base (">=1.0" and "1.0", say).
C6_Witness ==
    /\ C6_SameBase
    /\ ourVersion # theirVersion
    /\ HasRangePrefix(ourVersion.str) /\ StartsWith(ourVersion.str, ">")
    /\ Includes(resolution.reason, "identical")

\* Not both valid, and both coerce to the same version.
C7_CoerceEqual ==
    /\ VersionCall /\ strategy \in {"highest", "lowest"}
    /\ ~BothValid
    /\ semverCoerce(Base(ourVersion)).ok /\ semverCoerce(Base(theirVersion)).ok
    /\ compareSemVer(semverCoerce(Base(ourVersion)), semverCoerce(Base(theirVersion))) = 0

\* The kinds of range the claim orders: exact pin, tilde, caret, the rest.
C7_Kind(v) ==
    IF ~HasRangePrefix(v.str) THEN 3
    ELSE IF StartsWith(v.str, "~") THEN 2
    ELSE IF StartsWith(v.str, "^") THEN 1
    ELSE 0

C7_Parts(v) == Len(Split(Base(v), "."))

\* The winner as the claim has it: the kind first, the number of version
\* components otherwise (highest); the kind alone (lowest); else ours.
C7_ClaimedWinner ==
    IF C7_Kind(ourVersion) # C7_Kind(theirVersion)
    THEN (IF C7_Kind(ourVersion) > C7_Kind(theirVersion) THEN ourVersion ELSE theirVersion)
    ELSE IF strategy = "highest" /\ C7_Parts(theirVersion) > C7_Parts(ourVersion)
    THEN theirVersion
    ELSE ourVersion

\* C7: when the two strings are not both valid but coerce to the same
\* version (their bases differing, identical bases being settled before),
\* highest prefers exact pin over tilde over caret and more components
\* otherwise, lowest prefers exact pin over tilde over caret over a
\* comparison range, and a full tie keeps ours.
C7_SpecificityOrder ==
    (C7_CoerceEqual /\ Base(ourVersion) # Base(theirVersion)) =>
        resolution.resolved = C7_ClaimedWinner

C8_CoercionFails ==
    /\ VersionCall /\ strategy \in {"highest", "lowest"}
    /\ ~(semverCoerce(Base(ourVersion)).ok /\ semverCoerce(Base(theirVersion)).ok)

\* The returned input stands, in the order of localeCompare, where the
\* strategy wants it: not below the other under highest, not above it
\* under lowest.
C8_Lexicographic ==
    /\ ~resolution.raised
    /\ resolution.resolved \in {ourVersion, theirVersion}
    /\ strategy = "highest" =>
          localeCompare(resolution.resolved.str, OtherSide.str) >= 0
    /\ strategy = "lowest" =>
          localeCompare(resolution.resolved.str, OtherSide.str) <= 0

\* C8 as stated: when coercion fails for either side, the result is the
\* lexicographically larger string under highest and the smaller under
\* lowest, and the call does not raise.
C8_Original == C8_CoercionFails => C8_Lexicographic

\* C8 amended: the same, when the two bases differ.
C8_Amended ==
    (C8_CoercionFails /\ Base(ourVersion) # Base(theirVersion)) => C8_Lexicographic

\* The empty string lost to a version under highest, theirs being returned.
C8_Witness ==
    /\ C8_CoercionFails /\ Base(ourVersion) # Base(theirVersion)
    /\ strategy = "highest"
    /\ ourVersion = Str("")
    /\ semverValid(theirVersion.str)
    /\ resolution.resolved = theirVersion

(***************************************************************************)
(* The field merge engine: PackageResolver.resolveDependencyConflict and   *)
(* the simple resolution it falls back to.                                 *)
(***************************************************************************)

isDependencyField(name) ==
    name \in {"dependencies", "devDependencies", "peerDependencies",
              "optionalDependencies"}

ResolvedConflictOf(field, ourValue, theirValue, resolvedValue, strat) ==
    [field |-> field, ourValue |-> ourValue, theirValue |-> theirValue,
     resolvedValue |-> resolvedValue, strategy |-> strat,
     originalOurs |-> "", originalTheirs |-> "", raised |-> FALSE]

\* The call ended in a TypeError.
RaisedConflict ==
    [field |-> "", ourValue |-> "", theirValue |-> "", resolvedValue |-> "",
     strategy |-> "", originalOurs |-> "", originalTheirs |-> "", raised |-> TRUE]

\* resolveSimpleConflict with every field resolved as a version.
resolveSimpleConflictAsVersion(field, ourValue, theirValue, strat) ==
    ResolvedConflictOf(field, ourValue, theirValue,
        resolveVersion(Str(ourValue), Str(theirValue), strat).resolved.str,
        strat)

\* ourValue and theirValue are strings here.
resolveSimpleConflict(field, ourValue, theirValue, strat) ==
    ResolvedConflictOf(field, ourValue, theirValue,
        IF field = "version"
        THEN resolveVersion(Str(ourValue), Str(theirValue), strat).resolved.str
        ELSE JsString(resolveNonVersion(Str(ourValue), Str(theirValue), strat).resolved),
        strat)

\* The first loop: every defined property of ourDeps, in the order of its keys.
RECURSIVE AddOurs(_, _, _, _)
AddOurs(merged, ourDeps, keys, i) ==
    IF i > Len(keys) THEN merged
    ELSE AddOurs(IF Get(ourDeps, keys[i]).type # "undefined"
                 THEN ObjSet(merged, keys[i], Get(ourDeps, keys[i]))
                 ELSE merged,
                 ourDeps, keys, i + 1)

\* What the second loop leaves when resolveVersion raises.
RaisedValue == [type |-> "raised", str |-> "TypeError", entries |-> <<>>]

RECURSIVE MergeTheirs(_, _, _, _, _)

\* merged[packageName] = resolution.resolved, and on to the next key
MergeResolved(merged, theirDeps, keys, i, strat, res) ==
    IF res.raised THEN RaisedValue
    ELSE MergeTheirs(ObjSet(merged, keys[i], res.resolved), theirDeps, keys, i + 1, strat)

\* The second loop, from the i-th key of theirDeps on.
MergeTheirs(merged, theirDeps, keys, i, strat) ==
    IF i > Len(keys) THEN merged
    ELSE IF Get(theirDeps, keys[i]).type = "undefined"
    THEN MergeTheirs(merged, theirDeps, keys, i + 1, strat)
    ELSE IF ~In(merged, keys[i])
    THEN MergeTheirs(ObjSet(merged, keys[i], Get(theirDeps, keys[i])),
                     theirDeps, keys, i + 1, strat)
    ELSE IF StrictEqual(Get(merged, keys[i]), Get(theirDeps, keys[i]))
    THEN MergeTheirs(merged, theirDeps, keys, i + 1, strat)
    ELSE MergeResolved(merged, theirDeps, keys, i, strat,
            resolveVersion(Get(merged, keys[i]), Get(theirDeps, keys[i]), strat))

\* data[fieldName] when that is truthy, data itself otherwise (data an object)
DepsOf(data, field) ==
    IF Truthy(Get(data, field)) THEN Get(data, field) ELSE data

MergeDone(field, ourDeps, theirDeps, strat, merged) ==
    IF merged.type = "raised" THEN RaisedConflict
    ELSE ResolvedConflictOf(field, JsonPretty(ourDeps, ""), JsonPretty(theirDeps, ""),
                            JsonPretty(merged, ""), strat)

MergeOf(field, ourDeps, theirDeps, strat) ==
    MergeDone(field, ourDeps, theirDeps, strat,
        MergeTheirs(AddOurs(EmptyObject, ourDeps, OwnKeys(ourDeps), 1),
                    theirDeps, OwnKeys(theirDeps), 1, strat))

resolveDependencyConflict(field, our, their, strat) ==
    IF TypeOf(our) # "object"
    THEN resolveSimpleConflict(field, JsString(our),
            IF TypeOf(their) = "object" THEN JsonCompact(their) ELSE JsString(their),
            strat)
    ELSE IF our.type = "null" \/ their.type = "null" THEN RaisedConflict
    ELSE MergeOf(field, DepsOf(our, field),
            IF TypeOf(their) = "object" THEN DepsOf(their, field) ELSE EmptyObject,
            strat)

(***************************************************************************)
(* Calls of the merge engine on their own, on maps of at most MaxKeys      *)
(* entries, bare or under their field name.                                *)
(***************************************************************************)

MaxKeys == 2

MergeFields == {"dependencies", "scripts"}

MergeKeys == {"express", "lodash", "7", "constructor"}

MergeValues(field) ==
    IF field = "scripts" THEN {"node a2.js", "node a10.js"}
    ELSE {"^4.17.20", "^4.17.21"}

\* Key sequences as JSON.parse leaves them: no key twice, array indices first.
KeySequences ==
    {ks \in UNION {[1..n -> MergeKeys] : n \in 0..MaxKeys} :
        /\ \A i, j \in 1..Len(ks) : i # j => ks[i] # ks[j]
        /\ \A i, j \in 1..Len(ks) :
              (i < j /\ IsArrayIndex(ks[j])) =>
                  (IsArrayIndex(ks[i]) /\ IndexBefore(ks[i], ks[j]))}

MapsOf(field) ==
    UNION {{ObjectOf([i \in 1..Len(ks) |-> <<ks[i], Str(vs[i])>>]) :
                vs \in [1..Len(ks) -> MergeValues(field)]} : ks \in KeySequences}

MergeData(field) ==
    MapsOf(field) \cup {ObjectOf(<< <<field, m>> >>) : m \in MapsOf(field)}
        \cup {Num("5")}

VersionIdle ==
    /\ ourVersion = Null
    /\ theirVersion = Null
    /\ resolution = NoResolution

InitMerge ==
    /\ fieldName \in MergeFields
    /\ ourData \in MergeData(fieldName)
    /\ theirData \in MergeData(fieldName)
    /\ strategy \in Strategies
    /\ called = "none"
    /\ resolvedConflict = NoConflict
    /\ VersionIdle
    /\ OrderIdle
    /\ RunIdle
    /\ ParserIdle

CallResolveDependencyConflict ==
    /\ called = "none"
    /\ called' = "resolveDependencyConflict"
    /\ resolvedConflict' =
          resolveDependencyConflict(fieldName, ourData, theirData, strategy)
    /\ UNCHANGED <<fieldName, ourData, theirData, strategy, versionVars, orderVars,
                   runVars,
                   parserVars>>

NextMerge == CallResolveDependencyConflict

SpecMerge == InitMerge /\ [][NextMerge]_vars

(***************************************************************************)
(* Properties of the merge engine, checked under SpecMerge.                *)
(***************************************************************************)

\* The call under study merged two maps.
MergeCall ==
    /\ called = "resolveDependencyConflict"
    /\ ourData.type = "object" /\ theirData.type = "object"

\* The map a side holds: the value under the field name, or the datum.
OurMap == IF HasOwn(ourData, fieldName) THEN Get(ourData, fieldName) ELSE ourData

TheirMap == IF HasOwn(theirData, fieldName) THEN Get(theirData, fieldName) ELSE theirData

\* A name both sides define, with differing values.
InConflict(k) ==
    HasOwn(OurMap, k) /\ HasOwn(TheirMap, k) /\ Get(OurMap, k) # Get(TheirMap, k)

\* The value a key of ours ends with, given the resolver's choices.
C1_OursEntry(e, asVersion) ==
    IF ~InConflict(e[1]) THEN e
    ELSE IF asVersion
    THEN <<e[1], resolveVersion(e[2], Get(TheirMap, e[1]), strategy).resolved>>
    ELSE <<e[1], resolveNonVersion(e[2], Get(TheirMap, e[1]), strategy).resolved>>

C1_TheirsOnly(e) == ~HasOwn(OurMap, e[1])

\* Every ours key in ours order, then every theirs-only key in theirs order.
C1_Expected(asVersion) ==
    ObjectOf([i \in 1..Len(OurMap.entries) |-> C1_OursEntry(OurMap.entries[i], asVersion)]
                \o SelectSeq(TheirMap.entries, C1_TheirsOnly))

\* C1: a merge of two maps that returns lists every ours key in ours order
\* and then every theirs-only key in theirs order; a one-sided key keeps its
\* value and a key in conflict keeps its ours position with the value the
\* resolver chooses (for a script, the choice of either entry point is
\* accepted here).
C1_OursFirstTheirsAppended ==
    (MergeCall /\ ~resolvedConflict.raised) =>
        \/ resolvedConflict.resolvedValue = JsonPretty(C1_Expected(TRUE), "")
        \/ /\ fieldName = "scripts"
           /\ resolvedConflict.resolvedValue = JsonPretty(C1_Expected(FALSE), "")

\* The larger of two strings in the order of localeCompare, or the smaller.
C2_Chosen(a, b) ==
    IF strategy = "highest"
    THEN (IF localeCompare(a, b) > 0 THEN a ELSE b)
    ELSE (IF localeCompare(a, b) < 0 THEN a ELSE b)

\* C2: in a scripts merge that returns, a name in conflict ends with the
\* lexicographically larger of its two command strings under highest and
\* with the smaller under lowest.
C2_ScriptsLexicographic ==
    (MergeCall /\ fieldName = "scripts" /\ strategy \in {"highest", "lowest"}
        /\ ~resolvedConflict.raised) =>
        \A k \in MergeKeys :
            InConflict(k) =>
                Includes(resolvedConflict.resolvedValue,
                    JsonQuote(k) \o ": "
                        \o JsonQuote(C2_Chosen(Get(OurMap, k).str, Get(TheirMap, k).str)))

(***************************************************************************)
(* The canonical field order: PackageResolver.stabilizeFieldOrder.         *)
(***************************************************************************)

STABLE_PACKAGE_JSON_FIELDS ==
    <<"name", "version", "private", "scripts", "dependencies", "devDependencies",
      "peerDependencies", "peerDependenciesMeta", "optionalDependencies",
      "engines", "packageManager">>

IsStableField(key) ==
    \E i \in 1..Len(STABLE_PACKAGE_JSON_FIELDS) : STABLE_PACKAGE_JSON_FIELDS[i] = key

\* The first loop: the stable fields the document defines, in their order.
RECURSIVE AddStableFields(_, _, _)
AddStableFields(acc, document, i) ==
    IF i > Len(STABLE_PACKAGE_JSON_FIELDS) THEN acc
    ELSE AddStableFields(
            IF Get(document, STABLE_PACKAGE_JSON_FIELDS[i]).type # "undefined"
            THEN ObjSet(acc, STABLE_PACKAGE_JSON_FIELDS[i],
                        Get(document, STABLE_PACKAGE_JSON_FIELDS[i]))
            ELSE acc,
            document, i + 1)

\* Object.entries(v), v neither null nor undefined
RECURSIVE EntriesFrom(_, _, _)
EntriesFrom(v, keys, i) ==
    IF i > Len(keys) THEN <<>>
    ELSE <<<<keys[i], Get(v, keys[i])>>>> \o EntriesFrom(v, keys, i + 1)

OwnEntries(v) == EntriesFrom(v, OwnKeys(v), 1)

\* The second loop: the entries of the document under any other key.
RECURSIVE AddRemainingFields(_, _, _)
AddRemainingFields(acc, entries, i) ==
    IF i > Len(entries) THEN acc
    ELSE AddRemainingFields(
            IF ~IsStableField(entries[i][1])
            THEN ObjSet(acc, entries[i][1], entries[i][2])
            ELSE acc,
            entries, i + 1)

\* document is not null
stabilizeFieldOrder(document) ==
    AddRemainingFields(AddStableFields(EmptyObject, document, 1), OwnEntries(document), 1)

(***************************************************************************)
(* Calls of stabilizeFieldOrder on their own: on a parsed document of at   *)
(* most MaxFields fields, and once more on what the first call returned.   *)
(***************************************************************************)

MaxFields == 3

DocumentKeys ==
    {"name", "version", "dependencies", "engines", "description", "main", "0", "10"}

DocumentValue(key) ==
    IF key \in {"dependencies", "engines"}
    THEN ObjectOf(<< <<"node", Str(">=18")>> >>)
    ELSE Str("the " \o key)

\* Documents as JSON.parse leaves them: no key twice, array indices first.
Documents ==
    {ObjectOf([i \in 1..Len(ks) |-> <<ks[i], DocumentValue(ks[i])>>]) :
        ks \in {ks \in UNION {[1..n -> DocumentKeys] : n \in 0..MaxFields} :
                  /\ \A i, j \in 1..Len(ks) : i # j => ks[i] # ks[j]
                  /\ \A i, j \in 1..Len(ks) :
                        (i < j /\ IsArrayIndex(ks[j])) =>
                            (IsArrayIndex(ks[i]) /\ IndexBefore(ks[i], ks[j]))}}

InitOrder ==
    /\ packageJson \in Documents
    /\ ordered = Null
    /\ strategy = "highest"
    /\ called = "none"
    /\ VersionIdle
    /\ MergeIdle
    /\ RunIdle
    /\ ParserIdle

CallStabilizeFieldOrder ==
    /\ called = "none"
    /\ called' = "stabilizeFieldOrder"
    /\ ordered' = stabilizeFieldOrder(packageJson)
    /\ UNCHANGED <<packageJson, strategy, versionVars, mergeVars, runVars,
                   parserVars>>

\* The document returned is ordered once more.
CallStabilizeFieldOrderAgain ==
    /\ called = "stabilizeFieldOrder"
    /\ called' = "stabilizeFieldOrder again"
    /\ packageJson' = ordered
    /\ ordered' = stabilizeFieldOrder(ordered)
    /\ UNCHANGED <<strategy, versionVars, mergeVars, runVars,
                   parserVars>>

NextOrder == CallStabilizeFieldOrder \/ CallStabilizeFieldOrderAgain

SpecOrder == InitOrder /\ [][NextOrder]_vars

(***************************************************************************)
(* Properties of the canonical field order, checked under SpecOrder.       *)
(***************************************************************************)

C9_IsPriority(key) ==
    key \in {"name", "version", "private", "scripts", "dependencies",
             "devDependencies", "peerDependencies", "peerDependenciesMeta",
             "optionalDependencies", "engines", "packageManager"}

C9_Present(key) == HasOwn(packageJson, key)

C9_Other(key) == ~C9_IsPriority(key)

\* The priority fields the document has, in the order of the list, and then
\* its other fields in the order it has them.
C9_ExpectedKeys ==
    SelectSeq(<<"name", "version", "private", "scripts", "dependencies",
                "devDependencies", "peerDependencies", "peerDependenciesMeta",
                "optionalDependencies", "engines", "packageManager">>, C9_Present)
        \o SelectSeq(Keys(packageJson), C9_Other)

\* C9: the output lists the present priority fields in the order of the
\* list and then all other fields in their existing order, with the same
\* fields and values; ordering the output again changes nothing.
C9_CanonicalOrder ==
    called # "none" =>
        /\ Keys(ordered) = C9_ExpectedKeys
        /\ \A key \in DocumentKeys : Get(ordered, key) = Get(packageJson, key)
        /\ called = "stabilizeFieldOrder again" => ordered = packageJson

(***************************************************************************)
(* The conflict region scanner: ConflictParser.parseConflicts and          *)
(* ConflictParser.removeConflictMarkers.  Lines are counted from 0.        *)
(***************************************************************************)

\* Array.prototype.join
RECURSIVE Join(_, _)
Join(lines, sep) ==
    IF lines = <<>> THEN ""
    ELSE IF Len(lines) = 1 THEN lines[1]
    ELSE lines[1] \o sep \o Join(Tail(lines), sep)

\* The characters the dot of a regular expression does not match.
LineTerminators == {"\n", "\r"}

\* .+ up to the end of the line, from position i
RestIsLabel(line, i) ==
    i <= Len(line) /\ \A j \in i..Len(line) : CharAt(line, j) \notin LineTerminators

\* /^<{7} (.+)$/
CONFLICT_START(line) == StartsWith(line, "<<<<<<< ") /\ RestIsLabel(line, 9)

\* /^={7}$/
CONFLICT_MIDDLE(line) == line = "======="

\* /^>{7} (.+)$/
CONFLICT_END(line) == StartsWith(line, ">>>>>>> ") /\ RestIsLabel(line, 9)

\* The locals of parseConflicts: currentConflict (open, start, middle; -1 is
\* undefined), oursLines, theirsLines and conflicts.
ScanStart ==
    [open |-> FALSE, start |-> -1, middle |-> -1, oursLines |-> <<>>,
     theirsLines |-> <<>>, conflicts |-> <<>>]

ConflictMarkerOf(st, i) ==
    [start |-> st.start, middle |-> st.middle, end |-> i,
     ours |-> Join(st.oursLines, "\n"), theirs |-> Join(st.theirsLines, "\n")]

\* The loop body with the end marker closing a region that has no divider.
ScanLineEndWithoutMiddle(st, line, i) ==
    IF line = "" THEN st
    ELSE IF CONFLICT_START(line)
    THEN [st EXCEPT !.open = TRUE, !.start = i, !.middle = -1,
                    !.oursLines = <<>>, !.theirsLines = <<>>]
    ELSE IF CONFLICT_MIDDLE(line) /\ st.open
    THEN [st EXCEPT !.middle = i]
    ELSE IF CONFLICT_END(line) /\ st.open
    THEN [st EXCEPT !.open = FALSE, !.start = -1, !.middle = -1,
                    !.oursLines = <<>>, !.theirsLines = <<>>,
                    !.conflicts = Append(@, ConflictMarkerOf(st, i))]
    ELSE IF st.open /\ st.middle = -1
    THEN [st EXCEPT !.oursLines = Append(@, line)]
    ELSE IF st.open
    THEN [st EXCEPT !.theirsLines = Append(@, line)]
    ELSE st

\* The loop body with the end marker recording a region and leaving it open.
ScanLineEndLeavesOpen(st, line, i) ==
    IF line = "" THEN st
    ELSE IF CONFLICT_START(line)
    THEN [st EXCEPT !.open = TRUE, !.start = i, !.middle = -1,
                    !.oursLines = <<>>, !.theirsLines = <<>>]
    ELSE IF CONFLICT_MIDDLE(line) /\ st.open
    THEN [st EXCEPT !.middle = i]
    ELSE IF CONFLICT_END(line) /\ st.open /\ st.middle # -1
    THEN [st EXCEPT !.conflicts = Append(@, ConflictMarkerOf(st, i))]
    ELSE IF st.open /\ st.middle = -1
    THEN [st EXCEPT !.oursLines = Append(@, line)]
    ELSE IF st.open
    THEN [st EXCEPT !.theirsLines = Append(@, line)]
    ELSE st

\* The loop body with a start marker ignored while a region is open.
ScanLineKeepingFirstStart(st, line, i) ==
    IF line = "" THEN st
    ELSE IF CONFLICT_START(line) /\ st.open THEN st
    ELSE IF CONFLICT_START(line)
    THEN [st EXCEPT !.open = TRUE, !.start = i, !.middle = -1,
                    !.oursLines = <<>>, !.theirsLines = <<>>]
    ELSE IF CONFLICT_MIDDLE(line) /\ st.open
    THEN [st EXCEPT !.middle = i]
    ELSE IF CONFLICT_END(line) /\ st.open /\ st.middle # -1
    THEN [st EXCEPT !.open = FALSE, !.start = -1, !.middle = -1,
                    !.oursLines = <<>>, !.theirsLines = <<>>,
                    !.conflicts = Append(@, ConflictMarkerOf(st, i))]
    ELSE IF st.open /\ st.middle = -1
    THEN [st EXCEPT !.oursLines = Append(@, line)]
    ELSE IF st.open
    THEN [st EXCEPT !.theirsLines = Append(@, line)]
    ELSE st

\* The body of the loop of parseConflicts, on line i.
ScanLine(st, line, i) ==
    IF line = "" THEN st
    ELSE IF CONFLICT_START(line)
    THEN [st EXCEPT !.open = TRUE, !.start = i, !.middle = -1,
                    !.oursLines = <<>>, !.theirsLines = <<>>]
    ELSE IF CONFLICT_MIDDLE(line) /\ st.open
    THEN [st EXCEPT !.middle = i]
    ELSE IF CONFLICT_END(line) /\ st.open /\ st.middle # -1
    THEN [st EXCEPT !.open = FALSE, !.start = -1, !.middle = -1,
                    !.oursLines = <<>>, !.theirsLines = <<>>,
                    !.conflicts = Append(@, ConflictMarkerOf(st, i))]
    ELSE IF st.open /\ st.middle = -1
    THEN [st EXCEPT !.oursLines = Append(@, line)]
    ELSE IF st.open
    THEN [st EXCEPT !.theirsLines = Append(@, line)]
    ELSE st

RECURSIVE ScanFrom(_, _, _)
ScanFrom(lines, i, st) ==
    IF i >= Len(lines) THEN st.conflicts
    ELSE ScanFrom(lines, i + 1, ScanLine(st, lines[i + 1], i))

parseConflicts(text) == ScanFrom(Split(text, "\n"), 0, ScanStart)

hasConflicts(text) == Len(parseConflicts(text)) > 0

\* resolvedSections is the sequence of the <<start, text>> pairs of the Map.
HasSection(sections, start) == \E k \in 1..Len(sections) : sections[k][1] = start

SectionAt(sections, start) ==
    sections[CHOOSE k \in 1..Len(sections) : sections[k][1] = start][2]

\* The lines pushed for the region that starts at start.
SectionLines(sections, start) ==
    IF HasSection(sections, start) /\ Trim(SectionAt(sections, start)) # ""
    THEN Split(SectionAt(sections, start), "\n")
    ELSE <<>>

\* The loop over the conflicts going on from the end marker, not after it.
RECURSIVE RemoveFromKeepingEnd(_, _, _, _, _, _)
RemoveFromKeepingEnd(lines, conflicts, k, last, sections, acc) ==
    IF k > Len(conflicts)
    THEN acc \o SubSeq(lines, last + 1, Len(lines))
    ELSE RemoveFromKeepingEnd(lines, conflicts, k + 1, conflicts[k].end, sections,
            acc \o SubSeq(lines, last + 1, conflicts[k].start)
                   \o SectionLines(sections, conflicts[k].start))

\* The loop over the conflicts copying the start marker with the lines
\* before it.
RECURSIVE RemoveFromKeepingStart(_, _, _, _, _, _)
RemoveFromKeepingStart(lines, conflicts, k, last, sections, acc) ==
    IF k > Len(conflicts)
    THEN acc \o SubSeq(lines, last + 1, Len(lines))
    ELSE RemoveFromKeepingStart(lines, conflicts, k + 1, conflicts[k].end + 1, sections,
            acc \o SubSeq(lines, last + 1, conflicts[k].start + 1)
                   \o SectionLines(sections, conflicts[k].start))

\* The loop over the conflicts, last being lastProcessedLine.
RECURSIVE RemoveFrom(_, _, _, _, _, _)
RemoveFrom(lines, conflicts, k, last, sections, acc) ==
    IF k > Len(conflicts)
    THEN acc \o SubSeq(lines, last + 1, Len(lines))
    ELSE RemoveFrom(lines, conflicts, k + 1, conflicts[k].end + 1, sections,
            acc \o SubSeq(lines, last + 1, conflicts[k].start)
                   \o SectionLines(sections, conflicts[k].start))

removeConflictMarkers(text, sections) ==
    Join(RemoveFrom(Split(text, "\n"), parseConflicts(text), 1, 0, sections, <<>>),
         "\n")

(***************************************************************************)
(* The field-name locator and the partial-structure parser:                *)
(* ConflictParser.extractFieldName and ConflictParser.parsePartialJson.    *)
(* A name that is undefined is the empty string.                           *)
(***************************************************************************)

\* The position of the first c of s at or after i, 0 when there is none.
RECURSIVE Find(_, _, _)
Find(s, c, i) ==
    IF i > Len(s) THEN 0
    ELSE IF CharAt(s, i) = c THEN i
    ELSE Find(s, c, i + 1)

\* /^\s*"([^"]+)"/ on a line whose first quote stands at q: the position of
\* the closing quote, 0 when the pattern does not match.
NameEnd(line, q) ==
    IF At(line, q) # "\"" \/ Find(line, "\"", q + 1) <= q + 1 THEN 0
    ELSE Find(line, "\"", q + 1)

\* The position of the colon of /^\s*"([^"]+)"\s*:/, 0 without a match.
ColonOf(line) ==
    IF NameEnd(line, SkipWs(line, 1)) = 0 THEN 0
    ELSE IF At(line, SkipWs(line, NameEnd(line, SkipWs(line, 1)) + 1)) # ":" THEN 0
    ELSE SkipWs(line, NameEnd(line, SkipWs(line, 1)) + 1)

\* The group of that pattern.
NameOf(line) ==
    SubSeq(line, SkipWs(line, 1) + 1, NameEnd(line, SkipWs(line, 1)) - 1)

packageJsonFields ==
    {"name", "version", "description", "main", "scripts", "dependencies",
     "devDependencies", "peerDependencies", "optionalDependencies", "author",
     "license", "keywords", "repository", "bugs", "homepage"}

\* /^[a-z][a-z0-9-]*$/
IsPlainPackageName(name) ==
    /\ Len(name) > 0 /\ IsLower(CharAt(name, 1))
    /\ \A i \in 1..Len(name) :
          IsLower(CharAt(name, i)) \/ IsDigit(CharAt(name, i)) \/ CharAt(name, i) = "-"

\* What the first loop returns for a line that declares name.
DeclaredField(name) ==
    IF name \notin packageJsonFields
         /\ (Includes(name, "@") \/ Includes(name, "/") \/ IsPlainPackageName(name))
    THEN "dependencies"
    ELSE name

\* The first loop of extractFieldName.
RECURSIVE FirstDeclared(_, _)
FirstDeclared(lines, i) ==
    IF i > Len(lines) THEN ""
    ELSE IF ColonOf(lines[i]) # 0 THEN DeclaredField(NameOf(lines[i]))
    ELSE FirstDeclared(lines, i + 1)

\* The number of occurrences of the character c in s.
CountOf(s, c) == Cardinality({i \in 1..Len(s) : CharAt(s, i) = c})

\* /^\s*"([^"]+)"\s*:\s*\{?\s*$/
IsParentLine(line) ==
    /\ ColonOf(line) # 0
    /\ \/ SkipWs(line, ColonOf(line) + 1) > Len(line)
       \/ /\ At(line, SkipWs(line, ColonOf(line) + 1)) = "{"
          /\ SkipWs(line, SkipWs(line, ColonOf(line) + 1) + 1) > Len(line)

RECURSIVE LookBack(_, _, _)

\* Line i with the brace depth it leaves.
LookAt(lines, i, depth) ==
    IF IsParentLine(lines[i + 1]) /\ depth <= 0 THEN NameOf(lines[i + 1])
    ELSE IF depth > 2 THEN ""
    ELSE LookBack(lines, i - 1, depth)

\* The second loop of extractFieldName, at line i with braceDepth depth.
LookBack(lines, i, depth) ==
    IF i < 0 \/ i >= Len(lines) THEN ""
    ELSE IF lines[i + 1] = "" THEN LookBack(lines, i - 1, depth)
    ELSE LookAt(lines, i,
            depth + CountOf(lines[i + 1], "}") - CountOf(lines[i + 1], "{"))

extractFieldName(conflictContent, fullContent, conflictStart) ==
    IF FirstDeclared(Split(Trim(conflictContent), "\n"), 1) # ""
    THEN FirstDeclared(Split(Trim(conflictContent), "\n"), 1)
    ELSE LookBack(Split(fullContent, "\n"), conflictStart - 1, 0)

\* s without the characters of cs
RECURSIVE Without(_, _)
Without(s, cs) ==
    IF s = "" THEN ""
    ELSE (IF CharAt(s, 1) \in cs THEN "" ELSE CharAt(s, 1)) \o Without(Tail(s), cs)

\* replace(/,$/, "")
WithoutFinalComma(s) ==
    IF Len(s) > 0 /\ CharAt(s, Len(s)) = "," THEN SubSeq(s, 1, Len(s) - 1) ELSE s

\* The last blank or tab of s, "" when it has none.
RECURSIVE LastBlank(_)
LastBlank(s) ==
    IF s = "" THEN ""
    ELSE IF CharAt(s, Len(s)) \in {" ", "\t"} THEN CharAt(s, Len(s))
    ELSE LastBlank(SubSeq(s, 1, Len(s) - 1))

\* The group (.+?) of /:\s*(.+?),?\s*$/ on body, the text after the colon
\* without its leading white space, and rest, that text with it: the
\* shortest text that leaves a comma at most and white space; "" without a
\* match.
LazyValue(body, rest) ==
    IF body = "" THEN LastBlank(rest)
    ELSE IF \E i \in 1..Len(DropTrailing(body, WhiteSpace)) :
                CharAt(body, i) \in LineTerminators
    THEN ""
    ELSE IF Len(DropTrailing(body, WhiteSpace)) > 1
    THEN WithoutFinalComma(DropTrailing(body, WhiteSpace))
    ELSE DropTrailing(body, WhiteSpace)

\* match[2] of /^\s*"([^"]+)"\s*:\s*(.+?),?\s*$/, "" without a match
ValueText(line) ==
    IF ColonOf(line) = 0 THEN ""
    ELSE LazyValue(DropLeading(SubSeq(line, ColonOf(line) + 1, Len(line)), WhiteSpace),
                   SubSeq(line, ColonOf(line) + 1, Len(line)))

\* What the line gives the result: the parsed value, or the bare text.
LineValue(text) ==
    IF JsonParse(WithoutFinalComma(text)).ok
    THEN JsonParse(WithoutFinalComma(text)).value
    ELSE Str(Trim(Without(text, {"\"", ","})))

\* The last resort of parsePartialJson: one key-value pair a line.
RECURSIVE PairsOf(_, _, _)
PairsOf(lines, i, acc) ==
    IF i > Len(lines) THEN acc
    ELSE PairsOf(lines, i + 1,
            IF ValueText(lines[i]) # ""
            THEN ObjSet(acc, NameOf(lines[i]), LineValue(ValueText(lines[i])))
            ELSE acc)

\* parsePartialJson without the attempt on the text wrapped in braces.
parsePartialJsonWithoutWrapping(text) ==
    IF JsonParse(Trim(text)).ok THEN JsonParse(Trim(text)).value
    ELSE PairsOf(Split(Trim(text), "\n"), 1, EmptyObject)

parsePartialJson(text) ==
    IF JsonParse(Trim(text)).ok THEN JsonParse(Trim(text)).value
    ELSE IF JsonParse("{" \o Trim(text) \o "}").ok
    THEN JsonParse("{" \o Trim(text) \o "}").value
    ELSE PairsOf(Split(Trim(text), "\n"), 1, EmptyObject)

(***************************************************************************)
(* The resolution of one region: PackageResolver.resolveConflict and what  *)
(* it calls.  The field names of the documents modelled hold no character  *)
(* that is special in a regular expression.                                *)
(***************************************************************************)

\* The end of ".*?" when it matches at v: the next quote of the same line.
QuotedEnd(text, v) ==
    IF At(text, v) # "\"" \/ Find(text, "\"", v + 1) = 0 THEN 0
    ELSE IF \E j \in (v + 1)..(Find(text, "\"", v + 1) - 1) :
                CharAt(text, j) \in LineTerminators
    THEN 0
    ELSE Find(text, "\"", v + 1)

\* The end of [^,\n}]+ from v: the first position it does not match.
RECURSIVE BareEnd(_, _)
BareEnd(text, v) ==
    IF At(text, v) \in {"", ",", "\n", "}"} THEN v ELSE BareEnd(text, v + 1)

\* What the group matches when the white space after the colon gives back
\* its characters, p being the last of them: the last that is no newline.
RECURSIVE GivenBack(_, _, _)
GivenBack(text, from, p) ==
    IF p < from THEN ""
    ELSE IF CharAt(text, p) # "\n" THEN CharAt(text, p)
    ELSE GivenBack(text, from, p - 1)

\* The group (".*?"|[^,\n}]+) after the colon at c - 1, "" without a match;
\* v is where the white space after the colon ends.
ValueMatch(text, c, v) ==
    IF QuotedEnd(text, v) # 0 THEN SubSeq(text, v, QuotedEnd(text, v))
    ELSE IF BareEnd(text, v) > v THEN SubSeq(text, v, BareEnd(text, v) - 1)
    ELSE GivenBack(text, c, v - 1)

\* The group of the pattern matched at position i, "" without a match.
FieldMatchAt(text, name, i) ==
    IF i + Len(name) + 1 > Len(text) THEN ""
    ELSE IF LowerCase(SubSeq(text, i, i + Len(name) + 1))
                # LowerCase("\"" \o name \o "\"")
    THEN ""
    ELSE IF At(text, SkipWs(text, i + Len(name) + 2)) # ":" THEN ""
    ELSE ValueMatch(text, SkipWs(text, i + Len(name) + 2) + 1,
                    SkipWs(text, SkipWs(text, i + Len(name) + 2) + 1))

\* The group of the leftmost match.
RECURSIVE FieldMatch(_, _, _)
FieldMatch(text, name, i) ==
    IF i > Len(text) THEN ""
    ELSE IF FieldMatchAt(text, name, i) # "" THEN FieldMatchAt(text, name, i)
    ELSE FieldMatch(text, name, i + 1)

\* The quotes of a quoted value removed.
Unquoted(value) ==
    IF StartsWith(value, "\"") /\ CharAt(value, Len(value)) = "\""
    THEN SubSeq(value, 2, Len(value) - 1)
    ELSE value

extractFieldValue(text, name) ==
    IF FieldMatch(text, name, 1) = "" THEN Trim(text)
    ELSE Unquoted(Trim(FieldMatch(text, name, 1)))

\* The keys of both sides, each once, ours first.
RECURSIVE UnionKeys(_, _, _)
UnionKeys(keys, more, i) ==
    IF i > Len(more) THEN keys
    ELSE UnionKeys(IF \E j \in 1..Len(keys) : keys[j] = more[i] THEN keys
                   ELSE Append(keys, more[i]),
                   more, i + 1)

RECURSIVE MergeKeysFrom(_, _, _, _, _, _)

MergeKeyResolved(merged, our, their, keys, i, strat, res) ==
    IF res.raised THEN RaisedValue
    ELSE MergeKeysFrom(ObjSet(merged, keys[i], res.resolved), our, their, keys,
                       i + 1, strat)

\* The loop of resolveNodeModulesConflict, from the i-th key on.
MergeKeysFrom(merged, our, their, keys, i, strat) ==
    IF i > Len(keys) THEN merged
    ELSE IF Get(our, keys[i]).type # "undefined"
              /\ Get(their, keys[i]).type # "undefined"
              /\ ~StrictEqual(Get(our, keys[i]), Get(their, keys[i]))
    THEN MergeKeyResolved(merged, our, their, keys, i, strat,
            IF keys[i] = "version"
            THEN resolveVersion(Get(our, keys[i]), Get(their, keys[i]), strat)
            ELSE resolveNonVersion(Get(our, keys[i]), Get(their, keys[i]), strat))
    ELSE MergeKeysFrom(
            ObjSet(merged, keys[i],
                   IF Get(our, keys[i]).type # "undefined"
                   THEN Get(our, keys[i]) ELSE Get(their, keys[i])),
            our, their, keys, i + 1, strat)

NodeModulesDone(field, our, their, strat, merged) ==
    IF merged.type = "raised" THEN RaisedConflict
    ELSE ResolvedConflictOf(field, JsonPretty(our, ""), JsonPretty(their, ""),
                            JsonPretty(merged, ""), strat)

\* JSON.stringify(v) for an object, String(v) otherwise
SimpleText(v) == IF TypeOf(v) = "object" THEN JsonCompact(v) ELSE JsString(v)

resolveNodeModulesConflict(field, our, their, strat) ==
    IF TypeOf(our) # "object" \/ TypeOf(their) # "object"
    THEN resolveSimpleConflict(field, SimpleText(our), SimpleText(their), strat)
    ELSE IF our.type = "null" \/ their.type = "null" THEN RaisedConflict
    ELSE NodeModulesDone(field, our, their, strat,
            MergeKeysFrom(EmptyObject, our, their,
                          UnionKeys(OwnKeys(our), OwnKeys(their), 1), 1, strat))

\* The conflict with the two sides of the region stored in it.
WithOriginals(resolved, ours, theirs) ==
    IF resolved.raised THEN resolved
    ELSE [resolved EXCEPT !.originalOurs = ours, !.originalTheirs = theirs]

\* The body of resolveConflict once the field name is found.
ResolveField(name, ours, theirs, strat) ==
    IF isDependencyField(name) \/ name = "scripts"
    THEN resolveDependencyConflict(name, parsePartialJson(ours),
                                   parsePartialJson(theirs), strat)
    ELSE IF StartsWith(name, "node_modules/")
    THEN WithOriginals(resolveNodeModulesConflict(name, parsePartialJson(ours),
                            parsePartialJson(theirs), strat),
                       ours, theirs)
    ELSE resolveSimpleConflict(name, extractFieldValue(ours, name),
                               extractFieldValue(theirs, name), strat)

\* a || b || "unknown"
FirstName(a, b) == IF a # "" THEN a ELSE IF b # "" THEN b ELSE "unknown"

\* resolveConflict with the lines of theirs consulted before the context.
resolveConflictTheirsFirst(conflict, fullContent, strat) ==
    ResolveField(FirstName(FirstDeclared(Split(Trim(conflict.ours), "\n"), 1),
                           extractFieldName(conflict.theirs, fullContent, conflict.start)),
                 conflict.ours, conflict.theirs, strat)

\* A raised conflict stands for the null the catch clause returns.
resolveConflict(conflict, fullContent, strat) ==
    ResolveField(FirstName(extractFieldName(conflict.ours, fullContent, conflict.start),
                           extractFieldName(conflict.theirs, fullContent, conflict.start)),
                 conflict.ours, conflict.theirs, strat)

(***************************************************************************)
(* The reassembly: PackageResolver.formatResolvedContent and               *)
(* PackageResolver.resolveConflicts.                                       *)
(***************************************************************************)

\* The property a simple value is written as.
SimpleProperty(resolved) ==
    "  \"" \o resolved.field \o "\": "
        \o (IF StartsWith(resolved.resolvedValue, "\"") THEN resolved.resolvedValue
            ELSE "\"" \o resolved.resolvedValue \o "\"")

\* One line a dependency or script.
RECURSIVE DependencyLines(_, _)
DependencyLines(entries, i) ==
    IF i > Len(entries) THEN <<>>
    ELSE <<"    \"" \o entries[i][1] \o "\": \"" \o JsString(entries[i][2]) \o "\""
                \o (IF i = Len(entries) THEN "" ELSE ",")>>
            \o DependencyLines(entries, i + 1)

FormatDependencies(resolved, parsed) ==
    IF ~parsed.ok \/ parsed.value.type = "null" THEN SimpleProperty(resolved)
    ELSE Join(<<"  \"" \o resolved.field \o "\": {">>
                \o DependencyLines(OwnEntries(parsed.value), 1) \o <<"  }">>, "\n")

\* One line a field of the lock entry, each with its comma.
RECURSIVE LockLines(_, _)
LockLines(entries, i) ==
    IF i > Len(entries) THEN <<>>
    ELSE <<"      \"" \o entries[i][1] \o "\": "
                \o (IF entries[i][2].type = "string"
                    THEN "\"" \o entries[i][2].str \o "\""
                    ELSE JsonCompact(entries[i][2]))
                \o ",">>
            \o LockLines(entries, i + 1)

EndsWithComma(text) == Trim(text) # "" /\ CharAt(Trim(text), Len(Trim(text))) = ","

\* The lines, the last without its comma unless a side of the region had one.
LockText(resolved, lines) ==
    IF lines = <<>> \/ EndsWithComma(resolved.originalOurs)
          \/ EndsWithComma(resolved.originalTheirs)
    THEN Join(lines, "\n")
    ELSE Join([lines EXCEPT ![Len(lines)] = WithoutFinalComma(@)], "\n")

FormatLockEntry(resolved, parsed) ==
    IF ~parsed.ok \/ parsed.value.type = "null" THEN resolved.resolvedValue
    ELSE LockText(resolved, LockLines(OwnEntries(parsed.value), 1))

formatResolvedContent(resolved) ==
    IF isDependencyField(resolved.field) \/ resolved.field = "scripts"
    THEN FormatDependencies(resolved, JsonParse(resolved.resolvedValue))
    ELSE IF StartsWith(resolved.field, "node_modules/")
    THEN FormatLockEntry(resolved, JsonParse(resolved.resolvedValue))
    ELSE SimpleProperty(resolved)

RECURSIVE ResolveFrom(_, _, _, _, _)

\* What the loop keeps of the k-th region: nothing when its resolution is null.
ResolveStep(conflicts, k, text, strat, acc, resolved) ==
    ResolveFrom(conflicts, k + 1, text, strat,
        IF resolved.raised THEN acc
        ELSE [conflicts |-> Append(acc.conflicts, resolved),
              sections |-> Append(acc.sections,
                    <<conflicts[k].start, formatResolvedContent(resolved)>>)])

\* The loop over the regions: result.conflicts and resolvedSections.
ResolveFrom(conflicts, k, text, strat, acc) ==
    IF k > Len(conflicts) THEN acc
    ELSE ResolveStep(conflicts, k, text, strat, acc,
                     resolveConflict(conflicts[k], text, strat))

\* Reassembled with the failure of the reparse left out of the error list.
ReassembledWithoutError(acc, parsed) ==
    IF parsed.ok /\ parsed.value.type # "null"
    THEN [resolved |-> TRUE, conflicts |-> acc.conflicts, errors |-> <<>>,
          packageJson |-> stabilizeFieldOrder(parsed.value)]
    ELSE [resolved |-> FALSE, conflicts |-> acc.conflicts,
          errors |-> <<>>, packageJson |-> Undefined]

\* The end of resolveConflicts: the reparse and the canonical order.
Reassembled(acc, parsed) ==
    IF parsed.ok /\ parsed.value.type # "null"
    THEN [resolved |-> TRUE, conflicts |-> acc.conflicts, errors |-> <<>>,
          packageJson |-> stabilizeFieldOrder(parsed.value)]
    ELSE [resolved |-> FALSE, conflicts |-> acc.conflicts,
          errors |-> <<"Failed to parse resolved JSON">>, packageJson |-> Undefined]

Reassemble(text, acc) ==
    Reassembled(acc, JsonParse(removeConflictMarkers(text, acc.sections)))

resolveConflicts(text, strat) ==
    IF ~hasConflicts(text)
    THEN [resolved |-> TRUE, conflicts |-> <<>>, errors |-> <<>>,
          packageJson |-> Undefined]
    ELSE Reassemble(text,
            ResolveFrom(parseConflicts(text), 1, text, strat,
                        [conflicts |-> <<>>, sections |-> <<>>]))

\* What writeResolvedPackage leaves in the file.
Written(document, old, dryRun) ==
    IF dryRun THEN old ELSE JsonPretty(document, "") \o "\n"

(***************************************************************************)
(* The program: a file with at most MaxMarkers marker-like lines, read by  *)
(* a caller of resolveConflicts, by the resolve command or by the merge    *)
(* driver.                                                                 *)
(***************************************************************************)

MaxMarkers == 3

\* The lines a region is made of, and one that only looks like a start
\* marker.
MarkerLines == {"<<<<<<< HEAD", "=======", ">>>>>>> feature", "<<<<<<<"}

\* What the two sides of a region are about: a simple field, a whole
\* dependency map, one line inside a dependency map.
RegionKinds == {"version", "dependencies", "lodash"}

OursLine(kind) ==
    CASE kind = "version" -> "  \"version\": \"1.0.0\""
      [] kind = "description" -> "  \"description\": \"a\\\\b\""
      [] kind = "author" -> "  \"author\": \"v2 team\""
      [] kind = "dependencies" -> "  \"dependencies\": {\"lodash\": \"^4.17.21\"}"
      [] OTHER -> "    \"lodash\": \"^4.17.21\""

TheirsLine(kind) ==
    CASE kind = "version" -> "  \"version\": \"1.1.0\""
      [] kind = "description" -> "  \"description\": \"a\\\\c\""
      [] kind = "author" -> "  \"author\": \"v10 team\""
      [] kind = "constructor" -> "    \"constructor\": \"^1.0.0\""
      [] kind = "dependencies" ->
            "  \"dependencies\": {\"lodash\": \"^4.17.20\", \"react\": \"^18.0.0\"}"
      [] OTHER -> "    \"lodash\": \"^4.17.20\""

HeadLines(kind) ==
    IF kind = "lodash" THEN <<"{", "  \"dependencies\": {">>
    ELSE <<"{", "  \"name\": \"app\",">>

TailLines(kind) == IF kind = "lodash" THEN <<"  }", "}">> ELSE <<"}">>

\* The marker-like lines, the side a marker opens written after it.
RECURSIVE BodyLines(_, _, _)
BodyLines(markers, i, kind) ==
    IF i > Len(markers) THEN <<>>
    ELSE <<markers[i]>>
            \o (CASE markers[i] = "<<<<<<< HEAD" -> <<OursLine(kind)>>
                  [] markers[i] = "=======" -> <<TheirsLine(kind)>>
                  [] OTHER -> <<>>)
            \o BodyLines(markers, i + 1, kind)

MarkerContents ==
    {Join(HeadLines(kind) \o BodyLines(markers, 1, kind) \o TailLines(kind), "\n") :
        markers \in UNION {[1..n -> MarkerLines] : n \in 0..MaxMarkers},
        kind \in RegionKinds}

\* A complete region about kind.
RegionOf(kind) ==
    <<"<<<<<<< HEAD", OursLine(kind), "=======", TheirsLine(kind), ">>>>>>> feature">>

\* Documents with two regions: one inside the dependency map, on one entry
\* or on two entries of which one has the name of a member of
\* Object.prototype, and one on a simple field after the map, its value
\* plain, with an escape sequence, or with a number in it.
RegionContents ==
    {Join(<<"{", "  \"dependencies\": {">> \o RegionOf(inner) \o <<"  },">>
            \o RegionOf(outer) \o <<"}">>, "\n") :
        inner \in {"lodash", "constructor"},
        outer \in {"version", "description", "author"}}

\* A region whose ours side is empty and whose theirs side is one entry,
\* inside the engines map.
EntryAddedContent ==
    Join(<<"{", "  \"engines\": {", "<<<<<<< HEAD", "=======",
           "    \"node\": \">=18\"", ">>>>>>> feature", "  }", "}">>, "\n")

\* A region with no line on either side, after a field (after a map when
\* afterMap) of the document.
EmptyRegionContent(afterMap) ==
    Join(<<"{">>
            \o (IF afterMap
                THEN <<"  \"scripts\": {", "    \"build\": \"tsc\"", "  },">>
                ELSE <<"  \"name\": \"app\",">>)
            \o <<"<<<<<<< HEAD", "=======", ">>>>>>> feature", "}">>, "\n")

\* A region whose sides each declare the version and the dependency map.
TwoFieldContent ==
    Join(<<"{", "  \"name\": \"test-package\",", "<<<<<<< HEAD",
           "  \"version\": \"1.0.0\",", "  \"dependencies\": {",
           "    \"lodash\": \"^4.17.21\"", "  }", "=======",
           "  \"version\": \"2.0.0\",", "  \"dependencies\": {",
           "    \"lodash\": \"^4.17.20\"", "  }", ">>>>>>> feature", "}">>, "\n")

LocatorContents ==
    {EntryAddedContent, EmptyRegionContent(TRUE), EmptyRegionContent(FALSE),
     TwoFieldContent}

Contents == MarkerContents \cup RegionContents \cup LocatorContents

Init ==
    /\ content \in Contents
    /\ file = content
    /\ strategy \in AnyStrategy
    /\ called = "none"
    /\ result = NoResult
    /\ exitCode = -1
    /\ lockRegenerated = FALSE
    /\ VersionIdle
    /\ MergeIdle
    /\ OrderIdle
    /\ ParserIdle

\* A caller of the library resolves the text it holds.
CallResolveConflicts ==
    /\ called = "none"
    /\ called' = "resolveConflicts"
    /\ result' = resolveConflicts(content, strategy)
    /\ UNCHANGED <<strategy, content, file, exitCode, lockRegenerated,
                   versionVars, mergeVars, orderVars,
                   parserVars>>

\* resolvePackageConflicts once it holds the result of resolveConflicts.
ResolveCommandEnd(res, dryRun, regenerateLock) ==
    /\ result' = res
    /\ exitCode' = IF res.resolved THEN 0 ELSE 1
    /\ file' = IF res.resolved /\ res.packageJson.type # "undefined"
               THEN Written(res.packageJson, file, dryRun) ELSE file
    /\ lockRegenerated' = (/\ res.resolved /\ res.packageJson.type # "undefined"
                           /\ regenerateLock /\ ~dryRun)

\* The resolve command: the action of the program and resolvePackageConflicts.
RunResolveCommand ==
    /\ called = "none"
    /\ called' = "resolve"
    /\ IF strategy \notin Strategies
       THEN exitCode' = 1 /\ UNCHANGED <<result, file, lockRegenerated>>
       ELSE IF ~Includes(content, "<<<<<<< HEAD")
       THEN exitCode' = 0 /\ UNCHANGED <<result, file, lockRegenerated>>
       ELSE LET res == resolveConflicts(content, strategy)
            IN  \E dryRun, regenerateLock \in BOOLEAN :
                    ResolveCommandEnd(res, dryRun, regenerateLock)
    /\ UNCHANGED <<strategy, content, versionVars, mergeVars, orderVars,
                   parserVars>>

\* The merge driver once it holds the result of resolveConflicts.
MergeDriverEnd(res) ==
    /\ result' = res
    /\ exitCode' = IF res.resolved /\ res.packageJson.type # "undefined" THEN 0 ELSE 1
    /\ file' = IF res.resolved /\ res.packageJson.type # "undefined"
               THEN Written(res.packageJson, file, FALSE) ELSE file

\* The merge-driver command on the current version of the file.
RunMergeDriver ==
    /\ called = "none"
    /\ called' = "merge-driver"
    /\ MergeDriverEnd(resolveConflicts(content, strategy))
    /\ UNCHANGED <<strategy, content, lockRegenerated, versionVars, mergeVars,
                   orderVars,
                   parserVars>>

Next == CallResolveConflicts \/ RunResolveCommand \/ RunMergeDriver

Spec == Init /\ [][Next]_vars

(***************************************************************************)
(* Properties of the program, checked under Spec.                          *)
(***************************************************************************)

\* Lines i < j < k of the text that are a start marker with its label, a
\* divider and an end marker with its label.
C10_HasTriple(lines) ==
    \E i, j, k \in 1..Len(lines) :
        /\ i < j /\ j < k
        /\ StartsWith(lines[i], "<<<<<<< ") /\ Len(lines[i]) > 8
        /\ lines[j] = "======="
        /\ StartsWith(lines[k], ">>>>>>> ") /\ Len(lines[k]) > 8

\* resolveConflicts has run on the text of the file.
C10_Resolved ==
    \/ called \in {"resolveConflicts", "merge-driver"}
    \/ called = "resolve" /\ strategy \in Strategies
          /\ Includes(content, "<<<<<<< HEAD")

\* C10: when resolveConflicts has run on a text without a complete
\* start/divider/end marker triple, its result is marked resolved, lists no
\* resolved field and no error and carries no document, and the file is
\* what it was.
C10_NoTripleIsSuccess ==
    (C10_Resolved /\ ~C10_HasTriple(Split(content, "\n"))) =>
        /\ result.resolved
        /\ result.conflicts = <<>>
        /\ result.errors = <<>>
        /\ result.packageJson = Undefined
        /\ file = content

\* A text with a start marker and an end marker but no divider between
\* them went through the resolve command.
C10_Witness ==
    /\ called = "resolve" /\ C10_Resolved
    /\ ~C10_HasTriple(Split(content, "\n"))
    /\ Includes(content, ">>>>>>> feature")
    /\ result.resolved /\ exitCode = 0 /\ file = content

(***************************************************************************)
(* ConflictParser on its own: parseConflicts and removeConflictMarkers on  *)
(* texts of a few lines, parsePartialJson on fragments of a few lines.     *)
(***************************************************************************)

MaxScanLines == 4

\* A start marker, a divider, an end marker, a blank line and a line of text.
ScanLinePool == {"<<<<<<< HEAD", "=======", ">>>>>>> feature", "", "a"}

\* A complete region, with a blank line on its ours side.
FirstRegion == <<"<<<<<<< HEAD", "a", "", "=======", "a", ">>>>>>> feature">>

\* Any lines of the pool, alone or after a complete region.
ScanTexts ==
    {Join(head \o lines, "\n") :
        head \in {<<>>, FirstRegion},
        lines \in UNION {[1..n -> ScanLinePool] : n \in 0..MaxScanLines}}

\* The Map with the same text under every line number.
SectionsOf(replacement) ==
    [i \in 1..(Len(FirstRegion) + MaxScanLines) |-> <<i - 1, replacement>>]

\* The Map with a text under the even line numbers only.
EvenSectionsOf(replacement) ==
    [i \in 1..((Len(FirstRegion) + MaxScanLines + 1) \div 2) |->
        <<2 * (i - 1), replacement>>]

\* A blank text, a text of two lines, and a text for some of the regions
\* with no entry for the others.
SectionMaps == {SectionsOf(" "), SectionsOf("x\ny"), EvenSectionsOf("x")}

MaxFragmentLines == 3

FragmentLinePool ==
    {"\"lodash\": \"^4.17.21\"", "\"react\": \"^18.0.0\",", "  \"node\": >=18,",
     "\"engines\": {", "{", "}", ""}

Fragments ==
    {Join(lines, "\n") :
        lines \in UNION {[1..n -> FragmentLinePool] : n \in 0..MaxFragmentLines}}

InitParser ==
    /\ \/ scanText \in ScanTexts /\ replacements \in SectionMaps /\ fragment = ""
       \/ scanText = "" /\ replacements = <<>> /\ fragment \in Fragments
    /\ regions = <<>>
    /\ spliced = ""
    /\ partial = Undefined
    /\ strategy = "highest"
    /\ called = "none"
    /\ VersionIdle
    /\ MergeIdle
    /\ OrderIdle
    /\ RunIdle

CallParseConflicts ==
    /\ called = "none"
    /\ called' = "parseConflicts"
    /\ regions' = parseConflicts(scanText)
    /\ UNCHANGED <<scanText, replacements, spliced, fragment, partial, strategy,
                   versionVars, mergeVars, orderVars, runVars>>

CallRemoveConflictMarkers ==
    /\ called = "none"
    /\ called' = "removeConflictMarkers"
    /\ regions' = parseConflicts(scanText)
    /\ spliced' = removeConflictMarkers(scanText, replacements)
    /\ UNCHANGED <<scanText, replacements, fragment, partial, strategy,
                   versionVars, mergeVars, orderVars, runVars>>

CallParsePartialJson ==
    /\ called = "none"
    /\ called' = "parsePartialJson"
    /\ partial' = parsePartialJson(fragment)
    /\ UNCHANGED <<scanText, replacements, regions, spliced, fragment, strategy,
                   versionVars, mergeVars, orderVars, runVars>>

NextParser == CallParseConflicts \/ CallRemoveConflictMarkers \/ CallParsePartialJson

SpecParser == InitParser /\ [][NextParser]_vars

(***************************************************************************)
(* Properties of the scanner and the splicer, checked under SpecParser.    *)
(***************************************************************************)

\* The lines of the text handed to the scanner, line i of the source being
\* ScannedLines[i + 1].
ScannedLines == Split(scanText, "\n")

\* C11: every region parseConflicts returns has its start before its divider
\* and its divider before its end, and each region after the first starts
\* after the end of the one before it.
C11_OrderedRegions ==
    called = "parseConflicts" =>
        /\ \A k \in 1..Len(regions) :
              /\ 0 <= regions[k].start
              /\ regions[k].start < regions[k].middle
              /\ regions[k].middle < regions[k].end
              /\ regions[k].end < Len(ScannedLines)
        /\ \A k \in 2..Len(regions) : regions[k].start > regions[k - 1].end

\* Two regions were found in one text.
C11_Witness ==
    /\ called = "parseConflicts"
    /\ Len(regions) = 2
    /\ regions[2].start > regions[1].end

\* C12: for every region parseConflicts returns, ours is the lines strictly
\* between the start line and the divider line joined by newlines, and
\* theirs the lines strictly between the divider line and the end line,
\* blank lines included.
C12_SidesAreLineRanges ==
    called = "parseConflicts" =>
        \A k \in 1..Len(regions) :
            /\ regions[k].ours =
                  Join(SubSeq(ScannedLines, regions[k].start + 2, regions[k].middle), "\n")
            /\ regions[k].theirs =
                  Join(SubSeq(ScannedLines, regions[k].middle + 2, regions[k].end), "\n")

\* The region of the scanned text that starts at line i, if there is one.
C13_StartsRegion(i) == \E k \in 1..Len(regions) : regions[k].start = i

C13_RegionAt(i) == regions[CHOOSE k \in 1..Len(regions) : regions[k].start = i]

\* The replacement of the region that starts at line i: its lines, none
\* when the Map has no entry for it or an empty one; blankIsNothing tells
\* whether a text of white space counts as empty.
C13_Replacement(i, blankIsNothing) ==
    IF ~HasSection(replacements, i) THEN <<>>
    ELSE IF SectionAt(replacements, i) = "" THEN <<>>
    ELSE IF blankIsNothing /\ Trim(SectionAt(replacements, i)) = "" THEN <<>>
    ELSE Split(SectionAt(replacements, i), "\n")

\* The text line by line from line i on: a line outside the regions as it
\* is, the span of a region replaced.
RECURSIVE C13_Expected(_, _, _)
C13_Expected(lines, i, blankIsNothing) ==
    IF i >= Len(lines) THEN <<>>
    ELSE IF C13_StartsRegion(i)
    THEN C13_Replacement(i, blankIsNothing)
            \o C13_Expected(lines, C13_RegionAt(i).end + 1, blankIsNothing)
    ELSE <<lines[i + 1]>> \o C13_Expected(lines, i + 1, blankIsNothing)

\* C13 as stated: the lines outside the regions are returned unchanged and
\* in order, the span of each region replaced by its replacement text, by
\* nothing when that text is empty.
C13_Original ==
    called = "removeConflictMarkers" => spliced = Join(C13_Expected(ScannedLines, 0, FALSE), "\n")

\* C13 amended: the same, a replacement of white space alone and a missing
\* replacement counting as empty.
C13_Amended ==
    called = "removeConflictMarkers" => spliced = Join(C13_Expected(ScannedLines, 0, TRUE), "\n")

\* Two regions with a line of text between them were each replaced by a text
\* of two lines.
C13_Witness ==
    /\ called = "removeConflictMarkers"
    /\ Len(regions) = 2
    /\ replacements = SectionsOf("x\ny")
    /\ spliced = "x\ny\na\nx\ny"

C14_IsMarker(line) == CONFLICT_START(line) \/ CONFLICT_MIDDLE(line) \/ CONFLICT_END(line)

\* No replacement text has a marker line.
C14_CleanReplacements ==
    \A k \in 1..Len(replacements) :
        \A j \in 1..Len(Split(replacements[k][2], "\n")) :
            ~C14_IsMarker(Split(replacements[k][2], "\n")[j])

C14_NoMarkerLeft ==
    /\ \A j \in 1..Len(Split(spliced, "\n")) : ~C14_IsMarker(Split(spliced, "\n")[j])
    /\ parseConflicts(spliced) = <<>>

\* C14 as stated: with replacement texts free of marker lines, the text
\* removeConflictMarkers returns has no marker line and scans to no region.
C14_Original ==
    (called = "removeConflictMarkers" /\ C14_CleanReplacements) => C14_NoMarkerLeft

\* Every marker line of the scanned text lies within the span of a region.
C14_MarkersInRegions ==
    \A i \in 0..(Len(ScannedLines) - 1) :
        C14_IsMarker(ScannedLines[i + 1]) =>
            \E k \in 1..Len(regions) :
                /\ regions[k].start <= i
                /\ i <= regions[k].end

\* C14 amended: the same, for a text whose marker lines all lie within the
\* spans of its regions.
C14_Amended ==
    (called = "removeConflictMarkers" /\ C14_CleanReplacements /\ C14_MarkersInRegions)
        => C14_NoMarkerLeft

\* A text whose marker lines all belong to its regions had them replaced by a
\* text of two lines.
C14_Witness ==
    /\ called = "removeConflictMarkers"
    /\ C14_CleanReplacements /\ C14_MarkersInRegions
    /\ Len(regions) >= 1
    /\ \E k \in 1..Len(ScannedLines) : C14_IsMarker(ScannedLines[k])
    /\ replacements = SectionsOf("x\ny")
    /\ Includes(spliced, "x\ny")

(***************************************************************************)
(* Properties of the partial-structure parser, checked under SpecParser.   *)
(***************************************************************************)

\* The lines of the trimmed fragment that declare "key": value.
C18_Declaring ==
    {i \in 1..Len(Split(Trim(fragment), "\n")) :
        ValueText(Split(Trim(fragment), "\n")[i]) # ""}

\* The last line that declares key.
C18_LastOf(key) ==
    Split(Trim(fragment), "\n")[
        CHOOSE i \in C18_Declaring :
            /\ NameOf(Split(Trim(fragment), "\n")[i]) = key
            /\ \A j \in C18_Declaring :
                  NameOf(Split(Trim(fragment), "\n")[j]) = key => j <= i]

\* v is what the line-by-line extraction gives: an object with one property
\* for each key a line declares, holding the value of the last such line,
\* parsed where it parses and as bare text where it does not.
C18_Scraped(v) ==
    /\ v.type = "object"
    /\ \A a, b \in 1..Len(v.entries) : v.entries[a][1] = v.entries[b][1] => a = b
    /\ {v.entries[a][1] : a \in 1..Len(v.entries)}
          = {NameOf(Split(Trim(fragment), "\n")[i]) : i \in C18_Declaring}
    /\ \A a \in 1..Len(v.entries) :
          v.entries[a][2] = LineValue(ValueText(C18_LastOf(v.entries[a][1])))

\* C18: parsePartialJson returns a value for every text: the trimmed text
\* parsed when it parses as a whole, else the trimmed text in braces parsed
\* when that parses, else the line-by-line extraction.
C18_FirstSuccess ==
    called = "parsePartialJson" =>
        /\ partial.type \in {"object", "array", "string", "number", "boolean", "null"}
        /\ IF JsonParse(Trim(fragment)).ok
           THEN partial = JsonParse(Trim(fragment)).value
           ELSE IF JsonParse("{" \o Trim(fragment) \o "}").ok
           THEN partial = JsonParse("{" \o Trim(fragment) \o "}").value
           ELSE C18_Scraped(partial)

\* A fragment that parses only in braces, and then as a nested object.
C18_Witness ==
    /\ called = "parsePartialJson"
    /\ fragment = "\"engines\": {\n\"lodash\": \"^4.17.21\"\n}"
    /\ ~JsonParse(Trim(fragment)).ok
    /\ partial = ObjectOf(<< <<"engines",
                               ObjectOf(<< <<"lodash", Str("^4.17.21")>> >>)>> >>)


(***************************************************************************)
(* Properties of resolveConflicts and of the regions it resolves, checked  *)
(* under Spec.                                                             *)
(***************************************************************************)

\* The regions of the text, by position, whose resolution ends in an
\* internal failure.
C15_FailedIn(found) ==
    {k \in 1..Len(found) : resolveConflict(found[k], content, strategy).raised}

C15_FailedRegions == C15_FailedIn(parseConflicts(content))

\* C15: when resolveConflicts has run on a text of which the resolution of
\* some region failed internally, the result holds an error message for
\* each failed region and a resolved field for each of the other regions,
\* is not marked resolved and carries no document.
C15_FailedRegionIsReported ==
    (C10_Resolved /\ C15_FailedRegions # {}) =>
        /\ Len(result.errors) >= Cardinality(C15_FailedRegions)
        /\ Len(result.conflicts)
              = Len(parseConflicts(content)) - Cardinality(C15_FailedRegions)
        /\ ~result.resolved
        /\ result.packageJson = Undefined

\* C16: a result of resolveConflicts is marked resolved exactly when its
\* error list is empty, and a result with an error carries no document.
C16_SucceededIffNoError ==
    C10_Resolved =>
        /\ result.resolved <=> (result.errors = <<>>)
        /\ (result.errors # <<>>) => (result.packageJson = Undefined)

\* resolveConflicts resolved the regions of a text, and the text with the
\* resolutions in place of the regions was no document.
C16_Witness ==
    /\ called = "resolveConflicts"
    /\ result.conflicts # <<>>
    /\ result.errors # <<>>
    /\ ~result.resolved
    /\ result.packageJson = Undefined

\* C17: resolveConflicts returns a result for every text and strategy, and
\* the error list of the result is not empty when the resolution of a
\* region of the text failed internally.
C17_FailuresBecomeErrors ==
    C10_Resolved =>
        /\ result.resolved \in BOOLEAN
        /\ (C15_FailedRegions # {}) => (result.errors # <<>>)

\* The region lies right under the opening line of the dependency map and
\* its sides are the two lines of the lodash entry.
C19_EntryRegion(lines, region) ==
    /\ region.start >= 1
    /\ lines[region.start] = "  \"dependencies\": {"
    /\ region.ours = OursLine("lodash")
    /\ region.theirs = TheirsLine("lodash")

C19_HasEntryRegion(lines, found) ==
    \E k \in 1..Len(found) : C19_EntryRegion(lines, found[k])

\* C19: when resolveConflicts has resolved a text with a region inside the
\* dependency map whose sides are the lines of the lodash entry, the
\* dependency map of the document holds the lodash entry with the version
\* the strategy picks, and no field named dependencies.
C19_EntriesStayInMap ==
    (/\ C10_Resolved
     /\ result.resolved
     /\ C19_HasEntryRegion(Split(content, "\n"), parseConflicts(content))) =>
        /\ Get(Get(result.packageJson, "dependencies"), "lodash")
              = resolveVersion(Str("^4.17.21"), Str("^4.17.20"), strategy).resolved
        /\ ~HasOwn(Get(result.packageJson, "dependencies"), "dependencies")

\* The position of the first occurrence of key in side, 0 when there is none.
C20_FirstAt(side, key) ==
    IF ~Includes(side, key) THEN 0
    ELSE CHOOSE i \in 1..Len(side) :
            /\ SubSeq(side, i, i + Len(key) - 1) = key
            /\ \A j \in 1..(i - 1) : SubSeq(side, j, j + Len(key) - 1) # key

\* What follows the first "field": of the side, from its first character
\* that is no white space.
C20_Literal(side, field) ==
    DropLeading(SubSeq(side,
                       C20_FirstAt(side, "\"" \o field \o "\":") + Len(field) + 3,
                       Len(side)),
                WhiteSpace)

\* The characters of literal before the first comma, line break or closing
\* brace.
C20_Bare(literal) ==
    SubSeq(literal, 1,
           Cardinality({i \in 1..Len(literal) :
                          \A j \in 1..i : CharAt(literal, j) \notin {",", "\n", "}"}}))

\* The value of the first "field": value of the side: what stands between
\* the quotes of a quoted value, and a bare value as it is.
C20_ValueOf(side, field) ==
    IF StartsWith(C20_Literal(side, field), "\"")
          /\ Find(C20_Literal(side, field), "\"", 2) > 0
    THEN SubSeq(C20_Literal(side, field), 2,
                Find(C20_Literal(side, field), "\"", 2) - 1)
    ELSE Trim(C20_Bare(C20_Literal(side, field)))

\* The field the region is about.
C20_FieldOf(region) ==
    FirstName(extractFieldName(region.ours, content, region.start),
              extractFieldName(region.theirs, content, region.start))

\* The region is about a simple field that both sides give a value.
C20_Scalar(region, field) ==
    /\ ~isDependencyField(field)
    /\ field # "scripts"
    /\ ~StartsWith(field, "node_modules/")
    /\ C20_FirstAt(region.ours, "\"" \o field \o "\":") > 0
    /\ C20_FirstAt(region.theirs, "\"" \o field \o "\":") > 0

\* What the strategy makes of the two values of the field.
C20_Pick(field, ourValue, theirValue) ==
    IF field = "version"
    THEN resolveVersion(Str(ourValue), Str(theirValue), strategy).resolved.str
    ELSE resolveNonVersion(Str(ourValue), Str(theirValue), strategy).resolved.str

\* The result lists the field with the values of the two sides and the
\* value the strategy picks, and a document holds inDocument of that value.
C20_Listed(field, ourValue, theirValue, inDocument(_)) ==
    /\ \E i \in 1..Len(result.conflicts) :
          /\ result.conflicts[i].field = field
          /\ result.conflicts[i].ourValue = ourValue
          /\ result.conflicts[i].theirValue = theirValue
          /\ result.conflicts[i].resolvedValue = C20_Pick(field, ourValue, theirValue)
    /\ result.resolved =>
          Get(result.packageJson, field)
              = inDocument(C20_Pick(field, ourValue, theirValue))

C20_Regions(found, inDocument(_)) ==
    \A k \in 1..Len(found) :
        C20_Scalar(found[k], C20_FieldOf(found[k])) =>
            C20_Listed(C20_FieldOf(found[k]),
                       C20_ValueOf(found[k].ours, C20_FieldOf(found[k])),
                       C20_ValueOf(found[k].theirs, C20_FieldOf(found[k])),
                       inDocument)

\* The string a text stands for between the quotes of a JSON string.
C20_Decoded(value) == JsonParse("\"" \o value \o "\"").value

C21_InvalidStrategyRejected ==
    (called \in {"resolve", "merge-driver"} /\ strategy \notin Strategies) =>
        /\ result = NoResult
        /\ exitCode = 1
        /\ file = content

\* The command has run and, without rejecting the strategy, began a resolve.
C22_RanResolve ==
    \/ called = "merge-driver"
    \/ called = "resolve" /\ strategy \in Strategies

\* C22: a command that began a resolve ends with a status other than 0 when
\* resolveConflicts returned a result not marked resolved, and with status
\* 0 when the file has no conflict region.
C22_ExitStatus ==
    C22_RanResolve =>
        /\ (C10_Resolved /\ ~result.resolved) => exitCode # 0
        /\ (parseConflicts(content) = <<>>) => exitCode = 0


(***************************************************************************)
(* Properties of the transitions of the scanner, checked under SpecParser. *)
(***************************************************************************)

\* The locals of parseConflicts once the first n lines have been read.
RECURSIVE C23_StateAfter(_, _)
C23_StateAfter(lines, n) ==
    IF n = 0 THEN ScanStart
    ELSE ScanLine(C23_StateAfter(lines, n - 1), lines[n], n - 1)

C23_Scanned == called \in {"parseConflicts", "removeConflictMarkers"}

C23_IsStart(line) == StartsWith(line, "<<<<<<< ") /\ Len(line) > 8

C23_IsEnd(line) == StartsWith(line, ">>>>>>> ") /\ Len(line) > 8

\* The line is a divider met with no region open, or an end marker met in
\* a region that has no divider yet.
C23_Misplaced(st, line) ==
    \/ line = "=======" /\ ~st.open
    \/ C23_IsEnd(line) /\ st.open /\ st.middle = -1

C23_IgnoredIn(lines) ==
    \A n \in 1..Len(lines) :
        C23_Misplaced(C23_StateAfter(lines, n - 1), lines[n]) =>
            ScanLine(C23_StateAfter(lines, n - 1), lines[n], n - 1)
                = C23_StateAfter(lines, n - 1)

\* C23: reading a divider while no region is open, or an end marker while
\* the open region has no divider yet, leaves the locals of the scanner as
\* they were: no region is emitted and no side gains a line.
C23_MisplacedMarkerIgnored == C23_Scanned => C23_IgnoredIn(ScannedLines)

C24_KeptIn(lines) ==
    \A n \in 1..Len(lines) :
        (C23_IsStart(lines[n]) /\ C23_StateAfter(lines, n - 1).open) =>
            ScanLine(C23_StateAfter(lines, n - 1), lines[n], n - 1)
                = C23_StateAfter(lines, n - 1)

\* C24 as stated: reading a start marker while a region is open leaves the
\* locals of the scanner as they were, the start line and the lines of the
\* two sides included.
C24_Original == C23_Scanned => C24_KeptIn(ScannedLines)

\* The locals after a start marker on line i: a region open at i with no
\* divider and no line on either side, the regions emitted so far kept.
C24_Reopened(st, i) ==
    [open |-> TRUE, start |-> i, middle |-> -1, oursLines |-> <<>>,
     theirsLines |-> <<>>, conflicts |-> st.conflicts]

C24_ReopenedIn(lines) ==
    \A n \in 1..Len(lines) :
        (C23_IsStart(lines[n]) /\ C23_StateAfter(lines, n - 1).open) =>
            ScanLine(C23_StateAfter(lines, n - 1), lines[n], n - 1)
                = C24_Reopened(C23_StateAfter(lines, n - 1), n - 1)

\* C24: reading a start marker while a region is open opens a new region
\* at that line and drops the start line and the lines of the two sides
\* read so far, so that no line strictly inside a region that is emitted
\* is a start marker: the region begins at the last start marker before
\* its end.
C24_Amended ==
    C23_Scanned =>
        /\ C24_ReopenedIn(ScannedLines)
        /\ \A k \in 1..Len(regions) :
              \A n \in (regions[k].start + 2)..regions[k].end :
                  ~C23_IsStart(ScannedLines[n])

\* Two start markers, a divider and an end marker were scanned: the one
\* region begins at the second start marker.
C24_Witness ==
    /\ called = "parseConflicts"
    /\ scanText = "<<<<<<< HEAD\n<<<<<<< HEAD\n=======\n>>>>>>> feature"
    /\ Len(regions) = 1
    /\ regions[1].start = 1
    /\ regions[1].end = 3


(***************************************************************************)
(* Properties of the field a region is resolved under, checked under Spec. *)
(***************************************************************************)

\* The field the first key line of a side stands for, "" without a key line.
C25_KeyOf(side) == FirstDeclared(Split(Trim(side), "\n"), 1)

\* The field the lines before the region give, "" when they give none.
C25_Context(region) == LookBack(Split(content, "\n"), region.start - 1, 0)

\* The first of the names that is one, "unknown" when none is.
C25_FirstOf(names) ==
    IF \A i \in 1..Len(names) : names[i] = "" THEN "unknown"
    ELSE names[CHOOSE i \in 1..Len(names) :
                  names[i] # "" /\ \A j \in 1..(i - 1) : names[j] = ""]

\* The place in result.conflicts of the k-th region.
C25_PlaceOf(failed, k) == k - Cardinality({j \in failed : j < k})

\* Every region whose resolution did not fail is listed under the field
\* the sources name, taken in the order given.
C25_Located(found, failed, sources(_)) ==
    /\ Len(result.conflicts) = Len(found) - Cardinality(failed)
    /\ \A k \in (1..Len(found)) \ failed :
          result.conflicts[C25_PlaceOf(failed, k)].field = C25_FirstOf(sources(found[k]))

C25_OursTheirsContext(region) ==
    <<C25_KeyOf(region.ours), C25_KeyOf(region.theirs), C25_Context(region)>>

C25_OursContextTheirs(region) ==
    <<C25_KeyOf(region.ours), C25_Context(region), C25_KeyOf(region.theirs)>>

\* C25 as stated: the field of a region is that of the first key line of
\* ours, else that of the first key line of theirs, else the one the lines
\* before the region give, else "unknown".
C25_Original ==
    C10_Resolved =>
        C25_Located(parseConflicts(content), C15_FailedRegions, C25_OursTheirsContext)

\* C25: the field of a region is that of the first key line of ours, else
\* the one the lines before the region give, else that of the first key
\* line of theirs, else "unknown".
C25_Amended ==
    C10_Resolved =>
        C25_Located(parseConflicts(content), C15_FailedRegions, C25_OursContextTheirs)

\* A region inside the engines map with no line on the ours side and the
\* node entry on the theirs side was resolved under the field engines.
C25_Witness ==
    /\ called = "resolveConflicts"
    /\ content = EntryAddedContent
    /\ Len(result.conflicts) = 1
    /\ result.conflicts[1].field = "engines"

\* What the braces of lines from..to leave open.
C27_Opened(lines, from, to) ==
    LET RECURSIVE Sum(_)
        Sum(i) == IF i > to THEN 0
                  ELSE CountOf(lines[i], "{") - CountOf(lines[i], "}") + Sum(i + 1)
    IN  Sum(from)

\* Some line before the region declares name and opens an object that is
\* still open where the region starts.
C27_Encloses(lines, region, name) ==
    \E j \in 1..region.start :
        /\ ColonOf(lines[j]) # 0
        /\ NameOf(lines[j]) = name
        /\ C27_Opened(lines, j, region.start) >= 1

\* C27: when the ours side of a region has no key line and the lines
\* before the region give a field, that field is declared by a line whose
\* object is still open where the region starts.
C27_OwnerEncloses ==
    C10_Resolved =>
        \A k \in 1..Len(parseConflicts(content)) :
            (/\ C25_KeyOf(parseConflicts(content)[k].ours) = ""
             /\ C25_Context(parseConflicts(content)[k]) # "") =>
                C27_Encloses(Split(content, "\n"), parseConflicts(content)[k],
                             C25_Context(parseConflicts(content)[k]))

\* The names the lines of a side declare at the top level of the document:
\* the key lines indented by two blanks.
C28_TopLevelNames(side) ==
    {NameOf(Split(side, "\n")[i]) :
        i \in {j \in 1..Len(Split(side, "\n")) :
                 /\ ColonOf(Split(side, "\n")[j]) # 0
                 /\ SkipWs(Split(side, "\n")[j], 1) = 3}}

\* C28: the document of a resolved result has every field that a side of a
\* region declares at the top level.
C28_NoFieldLost ==
    (C10_Resolved /\ result.resolved /\ result.packageJson # Undefined) =>
        \A k \in 1..Len(parseConflicts(content)) :
            \A name \in C28_TopLevelNames(parseConflicts(content)[k].ours)
                          \cup C28_TopLevelNames(parseConflicts(content)[k].theirs) :
                HasOwn(result.packageJson, name)

\* C30: every field of the document of a resolved result is a name written
\* in the text: a region resolved under the name unknown adds no field of
\* that name to the document.
C30_NoInventedField ==
    (C10_Resolved /\ result.resolved /\ result.packageJson # Undefined) =>
        \A i \in 1..Len(Keys(result.packageJson)) :
            Includes(content, "\"" \o Keys(result.packageJson)[i] \o "\"")


(***************************************************************************)
(* Calls of resolveNodeModulesConflict on their own, on two records of at  *)
(* most MaxLockKeys sub-fields of an entry of the lock file.               *)
(***************************************************************************)

MaxLockKeys == 2

LockKeys == {"version", "resolved", "constructor"}

LockValues == {"1.2.0", "1.10.0"}

LockKeySequences ==
    {ks \in UNION {[1..n -> LockKeys] : n \in 0..MaxLockKeys} :
        \A i, j \in 1..Len(ks) : i # j => ks[i] # ks[j]}

LockRecords ==
    UNION {{ObjectOf([i \in 1..Len(ks) |-> <<ks[i], Str(vs[i])>>]) :
                vs \in [1..Len(ks) -> LockValues]} : ks \in LockKeySequences}

InitLock ==
    /\ fieldName = "node_modules/lodash"
    /\ ourData \in LockRecords
    /\ theirData \in LockRecords
    /\ strategy \in Strategies
    /\ called = "none"
    /\ resolvedConflict = NoConflict
    /\ VersionIdle
    /\ OrderIdle
    /\ RunIdle
    /\ ParserIdle

CallResolveNodeModulesConflict ==
    /\ called = "none"
    /\ called' = "resolveNodeModulesConflict"
    /\ resolvedConflict' =
          resolveNodeModulesConflict(fieldName, ourData, theirData, strategy)
    /\ UNCHANGED <<fieldName, ourData, theirData, strategy, versionVars, orderVars,
                   runVars, parserVars>>

NextLock == CallResolveNodeModulesConflict

SpecLock == InitLock /\ [][NextLock]_vars

(***************************************************************************)
(* Properties of the merge of a lock entry, checked under SpecLock.        *)
(***************************************************************************)

\* The value the merged record is to hold under a sub-field of ours or of
\* theirs.
C26_Expected(k) ==
    IF HasOwn(ourData, k) /\ HasOwn(theirData, k)
          /\ Get(ourData, k) # Get(theirData, k)
    THEN (IF k = "version"
          THEN resolveVersion(Get(ourData, k), Get(theirData, k), strategy).resolved
          ELSE resolveNonVersion(Get(ourData, k), Get(theirData, k), strategy).resolved)
    ELSE IF HasOwn(ourData, k) THEN Get(ourData, k)
    ELSE Get(theirData, k)

C26_UnionOfNames ==
    {Keys(ourData)[i] : i \in 1..Len(Keys(ourData))}
        \cup {Keys(theirData)[i] : i \in 1..Len(Keys(theirData))}

C26_MergedIs(merged) ==
    /\ {Keys(merged)[i] : i \in 1..Len(Keys(merged))} = C26_UnionOfNames
    /\ \A k \in C26_UnionOfNames : Get(merged, k) = C26_Expected(k)

\* C26: the record resolveNodeModulesConflict returns for two records has
\* the sub-fields of both and no other; a sub-field of one side, or with
\* the same value on both, has that value, and a sub-field with two values
\* has the choice of resolveVersion when it is named version and that of
\* resolveNonVersion otherwise.
C26_UnionOfSubfields ==
    (called = "resolveNodeModulesConflict" /\ ~resolvedConflict.raised) =>
        /\ JsonParse(resolvedConflict.resolvedValue).ok
        /\ C26_MergedIs(JsonParse(resolvedConflict.resolvedValue).value)


(***************************************************************************)
(* The choice of resolveVersion as a selection, checked under SpecVersion. *)
(***************************************************************************)

\* What the call returns with its two arguments exchanged.
C29_Swapped == resolveVersion(theirVersion, ourVersion, strategy).resolved

\* The call is one under highest or lowest on strings of differing bases.
C29_Ordered ==
    /\ strategy \in {"highest", "lowest"}
    /\ Base(ourVersion) # Base(theirVersion)

\* C29 as stated: resolveVersion on two strings returns one of the two,
\* unchanged, and under highest and lowest it returns the same string with
\* the two exchanged when their bases differ.
C29_Original ==
    VersionCall =>
        /\ resolution.resolved \in {ourVersion, theirVersion}
        /\ C29_Ordered => C29_Swapped = resolution.resolved

\* The comparison ended in a tie that the first argument wins.
C29_KeptOurs ==
    resolution.reason \in {"versions are identical",
                           "versions have equal specificity, keeping ours",
                           "versions have equal restrictiveness, keeping ours"}

\* The comparison of the two full strings ended in a tie, which the second
\* argument wins.
C29_KeptTheirs ==
    /\ resolution.reason \in {"their version is lexicographically higher",
                              "their version is lexicographically lower"}
    /\ localeCompare(ourVersion.str, theirVersion.str) = 0

\* C29: resolveVersion on two strings returns one of the two, unchanged;
\* under highest and lowest, on strings of differing bases, it returns the
\* same string with the two exchanged unless the comparison ends in a tie,
\* and the first argument of each call when the tie is one of versions
\* that compare equal with equal scores.
C29_Amended ==
    VersionCall =>
        /\ resolution.resolved \in {ourVersion, theirVersion}
        /\ (C29_Ordered /\ ~C29_KeptOurs /\ ~C29_KeptTheirs) =>
              C29_Swapped = resolution.resolved
        /\ (C29_Ordered /\ C29_KeptOurs) =>
              (resolution.resolved = ourVersion /\ C29_Swapped = theirVersion)

\* resolveVersion was called under highest on "1.0" and "~1.0.0", which
\* coerce to the same version and have the same score: ours is returned.
C29_Witness ==
    /\ called = "resolveVersion"
    /\ strategy = "highest"
    /\ ourVersion = Str("1.0")
    /\ theirVersion = Str("~1.0.0")
    /\ resolution.resolved = ourVersion
    /\ resolution.reason = "versions have equal specificity, keeping ours"

====
